---- MODULE Spec2Model ----
(***************************************************************************)
(* State machine of the FreelanceTM bot (src/main.py): the in-memory       *)
(* stores users_db / orders_db / counters and the handlers that move money *)
(* between a client's balance, a client's frozen balance and a             *)
(* freelancer's balance.                                                    *)
(*                                                                         *)
(* Money is kept in whole units (the source uses floats; every guard of    *)
(* the ledger is a comparison followed by one addition or subtraction, so  *)
(* whole units exercise the same branches).                                *)
(*                                                                         *)
(* One action models one handler invocation run to completion: the bot is  *)
(* a single asyncio loop and no handler awaits between reading a store and *)
(* writing it back, except where noted.  The text the handler answers with *)
(* is kept in `reply`.  A handler that raises leaves the stores as they    *)
(* were at the raise: its reply is "exception".                            *)
(***************************************************************************)
EXTENDS Integers, FiniteSets, Sequences, TLC

\* ---------------------------------------------------------------- bounds
MaxOrders   == 2    \* order ids handed out by counters["order_id"]
MaxRequests == 1    \* request ids handed out by counters["withdrawal_id"]
MaxMoney    == 2    \* cap on the sum of all balances (credits stop there);
                    \* also the largest amount a user or admin types in

\* Telegram ids that talk to the bot, and the configured administrators.
UserIds   == {1, 2, 3}
ADMIN_IDS == {4}
Callers   == UserIds \cup ADMIN_IDS
OrderIds   == 1..MaxOrders
RequestIds == 1..MaxRequests
ServiceIds == {1}
Amounts    == 1..MaxMoney

\* The role each user picks in the registration dialog (role_selected).
RoleOf(user_id) == IF user_id = 1 THEN "client" ELSE "freelancer"
Clients     == {u \in UserIds : RoleOf(u) = "client"}
Freelancers == {u \in UserIds : RoleOf(u) = "freelancer"}
\* the freelancer whose response message carries an order's select button
Responders  == {2}
\* ids a select_<order>_<freelancer> callback can carry: the responder's,
\* or one that never registered
Selectable  == Responders \cup ADMIN_IDS

\* Python's None in an id-valued field (dict.get of a missing key).
None == 0

VARIABLES
    users_db,       \* user id -> [role, balance, frozen_balance]
    orders_db,      \* order id -> order record (base-flow and service orders)
    responses_db,   \* order id -> sequence of responding freelancer ids
    reviews_db,     \* <<order_id, reviewer_id, reviewed_id>> -> [rating, text]
    withdrawals_db, \* request id -> topup / withdrawal request
    services_db,    \* service id -> [user_id, price]
    bot,            \* which of the two bots runs: "main" (src/main.py, aiogram)
                    \* or "handlers" (src/handlers.py + src/database.py, telebot)
    counters,       \* [order_id, withdrawal_id]: next ids
    fsm,            \* user id -> FSMContext of the chat:
                    \* [state, amount, temp_withdrawal, review]
    reply,          \* [op, res]: the last handler run and what it answered
    tasks,          \* caller id -> the caller's confirm_completion coroutine:
                    \* [pc, order_id], pc the await it is suspended at
    limiter         \* src/security.py: [now, rate_limits, blocked_users] and
                    \* calls, the record of every check_rate_limit call made

vars == <<users_db, orders_db, responses_db, reviews_db, withdrawals_db,
          services_db, bot, counters, fsm, reply, tasks, limiter>>

\* the stores a handler of one component leaves alone
orderStores  == <<orders_db, responses_db, reviews_db>>
escrowStores == <<withdrawals_db, fsm>>
config       == <<services_db, bot, tasks, limiter>>

\* ------------------------------------------------------------ dict helpers
Put(f, k, v) == [x \in (DOMAIN f) \cup {k} |-> IF x = k THEN v ELSE f[x]]
Del(f, k)    == [x \in (DOMAIN f) \ {k} |-> f[x]]
Empty        == [x \in {} |-> 0]

Answer(op, res) == [op |-> op, res |-> res]

is_admin(user_id) == user_id \in ADMIN_IDS

get_user_balance(db, user_id) ==
    IF user_id \in DOMAIN db THEN db[user_id].balance ELSE 0

get_user_frozen_balance(db, user_id) ==
    IF user_id \in DOMAIN db THEN db[user_id].frozen_balance ELSE 0

RECURSIVE SumOver(_, _)
SumOver(S, f) ==
    IF S = {} THEN 0
    ELSE LET x == CHOOSE y \in S : TRUE IN f[x] + SumOver(S \ {x}, f)

\* All the money the ledger holds.
TotalMoney(db) ==
    SumOver(DOMAIN db, [u \in DOMAIN db |-> db[u].balance + db[u].frozen_balance])

\* ------------------------------------------------------------------ ledger
add_to_balance(db, user_id, amount) ==
    IF user_id \in DOMAIN db
    THEN [db EXCEPT ![user_id].balance = @ + amount]
    ELSE db

\* a debit that never happens
subtract_from_balance_none(db, user_id, amount) == db

subtract_from_balance(db, user_id, amount) ==
    IF user_id \in DOMAIN db /\ db[user_id].balance >= amount
    THEN [db EXCEPT ![user_id].balance = @ - amount]
    ELSE db

\* freeze_balance that debits the balance without crediting frozen_balance
freeze_balance_lost(db, user_id, amount) ==
    IF user_id \in DOMAIN db /\ db[user_id].balance >= amount
    THEN [db EXCEPT ![user_id].balance = @ - amount]
    ELSE db

freeze_balance(db, user_id, amount) ==
    IF user_id \in DOMAIN db /\ db[user_id].balance >= amount
    THEN [db EXCEPT ![user_id].balance = @ - amount,
                    ![user_id].frozen_balance = @ + amount]
    ELSE db

unfreeze_balance(db, user_id, amount) ==
    IF user_id \in DOMAIN db /\ db[user_id].frozen_balance >= amount
    THEN [db EXCEPT ![user_id].frozen_balance = @ - amount,
                    ![user_id].balance = @ + amount]
    ELSE db

\* transfer_frozen_to_user without the test frozen >= amount
transfer_frozen_to_user_unchecked(db, from_user_id, to_user_id, amount) ==
    IF from_user_id \in DOMAIN db /\ to_user_id \in DOMAIN db
    THEN LET taken == [db EXCEPT ![from_user_id].frozen_balance = @ - amount]
         IN  [taken EXCEPT ![to_user_id].balance = @ + amount]
    ELSE db

transfer_frozen_to_user(db, from_user_id, to_user_id, amount) ==
    IF /\ from_user_id \in DOMAIN db
       /\ to_user_id \in DOMAIN db
       /\ db[from_user_id].frozen_balance >= amount
    THEN LET taken == [db EXCEPT ![from_user_id].frozen_balance = @ - amount]
         IN  [taken EXCEPT ![to_user_id].balance = @ + amount]
    ELSE db

\* ------------------------------------------------------------------ orders
\* create_order: the record order_contact_received builds, as stored.
\* Keys a dict does not hold read as None / False / 0 (dict.get).
NewOrder(client_id, budget) ==
    [type |-> "order", client_id |-> client_id, budget |-> budget,
     amount |-> 0, freelancer_id |-> None, status |-> "active",
     selected_freelancer |-> None,
     client_confirmed |-> FALSE, freelancer_confirmed |-> FALSE,
     confirmed_by_admin |-> FALSE, freelancer_completed |-> FALSE]

\* create_service_order: same id counter, no 'budget' key (read as 0 here;
\* the one handler that subscripts it, select_freelancer, raises KeyError).
NewServiceOrder(client_id, freelancer_id, amount) ==
    [type |-> "service_order", client_id |-> client_id, budget |-> 0,
     amount |-> amount, freelancer_id |-> freelancer_id,
     status |-> "waiting_payment", selected_freelancer |-> None,
     client_confirmed |-> FALSE, freelancer_confirmed |-> FALSE,
     confirmed_by_admin |-> FALSE, freelancer_completed |-> FALSE]

\* create_withdrawal_request stores no 'type' key: type "none" stands for a
\* record on which request['type'] raises KeyError.
NewRequest(user_id, type, amount, balance_before) ==
    [user_id |-> user_id, type |-> type, amount |-> amount,
     status |-> "pending", balance_before |-> balance_before]

\* A chat's FSMContext after state.clear(): no state, no data.
NoReview == [order_id |-> None, reviewed_id |-> None, reviewer_id |-> None,
             rating |-> 0]

Cleared == [state |-> "none", amount |-> 0, temp_withdrawal |-> 0,
            review |-> NoReview]

\* no confirm_completion coroutine is running
Idle == [pc |-> "idle", order_id |-> None]

NoTasks == [c \in Callers |-> Idle]

\* security.py at import: rate_limits = {}, blocked_users = {}
NoLimiter == [now |-> 0, rate_limits |-> Empty, blocked_users |-> Empty,
              calls |-> Empty]

IsBase(o) == o \in DOMAIN orders_db /\ orders_db[o].type = "order"

\* init_database loads the stores from data/*.json: a client and two
\* freelancers, one of whom offers a priced service; nothing else on file.
Init ==
    /\ users_db = [u \in UserIds |->
                      [role |-> RoleOf(u), balance |-> 0, frozen_balance |-> 0]]
    /\ orders_db = Empty
    /\ responses_db = Empty
    /\ reviews_db = Empty
    /\ withdrawals_db = Empty
    /\ services_db = [s \in ServiceIds |-> [user_id |-> 2, price |-> 1]]
    /\ bot = "main"
    /\ counters = [order_id |-> 1, withdrawal_id |-> 1]
    /\ fsm = [u \in UserIds |-> Cleared]
    /\ reply = Answer("start", "none")
    /\ tasks = NoTasks
    /\ limiter = NoLimiter

\* ------------------------------------------------------------ registration
\* role_selected .. profile_contact_received -> complete_registration:
\* role_selected carries no state filter and no check that the user is new,
\* and create_user overwrites users_db[user_id] with zero balances.
complete_registration(user_id, role) ==
    /\ users_db' = Put(users_db, user_id,
                       [role |-> role, balance |-> 0, frozen_balance |-> 0])
    /\ fsm' = [fsm EXCEPT ![user_id] = Cleared]
    /\ reply' = Answer("complete_registration", "registration_complete")
    /\ UNCHANGED <<orderStores, withdrawals_db, config, counters>>

\* ------------------------------------------------------ admin balance tools
admin_balance_result(caller, target_user_id, action, amount) ==
    IF ~is_admin(caller) THEN "no_access"
    ELSE IF target_user_id \notin DOMAIN users_db THEN "user_not_found"
    ELSE IF action = "subtract" /\
            get_user_balance(users_db, target_user_id) < amount
         THEN "insufficient"
    ELSE "changed"

admin_balance_action(caller, target_user_id, action, amount) ==
    LET res == admin_balance_result(caller, target_user_id, action, amount) IN
    /\ users_db' =
          IF res # "changed" THEN users_db
          ELSE IF action = "add"
               THEN add_to_balance(users_db, target_user_id, amount)
          ELSE IF action = "subtract"
               THEN subtract_from_balance(users_db, target_user_id, amount)
          ELSE [users_db EXCEPT ![target_user_id].balance = amount]
    /\ TotalMoney(users_db') <= MaxMoney
    /\ reply' = Answer("admin_balance_action", res)
    /\ UNCHANGED <<orderStores, escrowStores, config, counters>>

\* ------------------------------------------------------------ order dialog
\* create_order_start admits only role client; the dialog then collects the
\* fields (validate_budget: budget > 0) and order_contact_received checks
\* the balance, stores the order and clears the dialog state.
\* an order dialog that numbers the order by the count of stored orders
order_contact_received_len_id(user_id, budget) ==
    /\ user_id \in DOMAIN users_db
    /\ users_db[user_id].role = "client"
    /\ IF get_user_balance(users_db, user_id) < budget
       THEN /\ reply' = Answer("order_contact_received", "insufficient")
            /\ UNCHANGED <<orders_db, counters>>
       ELSE /\ counters.order_id <= MaxOrders
            /\ orders_db' = Put(orders_db, Cardinality(DOMAIN orders_db) + 1,
                                NewOrder(user_id, budget))
            /\ counters' = [counters EXCEPT !.order_id = @ + 1]
            /\ reply' = Answer("order_contact_received", "order_created")
    /\ fsm' = [fsm EXCEPT ![user_id] = Cleared]
    /\ UNCHANGED <<users_db, responses_db, reviews_db, withdrawals_db, config>>

order_contact_received(user_id, budget) ==
    /\ user_id \in DOMAIN users_db
    /\ users_db[user_id].role = "client"
    /\ IF get_user_balance(users_db, user_id) < budget
       THEN /\ reply' = Answer("order_contact_received", "insufficient")
            /\ UNCHANGED <<orders_db, counters>>
       ELSE /\ counters.order_id <= MaxOrders
            /\ orders_db' = Put(orders_db, counters.order_id,
                                NewOrder(user_id, budget))
            /\ counters' = [counters EXCEPT !.order_id = @ + 1]
            /\ reply' = Answer("order_contact_received", "order_created")
    /\ fsm' = [fsm EXCEPT ![user_id] = Cleared]
    /\ UNCHANGED <<users_db, responses_db, reviews_db, withdrawals_db, config>>

\* --------------------------------------------------------- select_freelancer
\* select_freelancer without the balance test of lines 1711-1717
select_freelancer_result_no_balance_test(caller, order_id, freelancer_id) ==
    IF caller \notin DOMAIN users_db THEN "exception"
    ELSE IF order_id \notin DOMAIN orders_db
            \/ orders_db[order_id].client_id # caller
         THEN "error_not_your_order"
    ELSE IF orders_db[order_id].type # "order" THEN "exception"
    ELSE IF freelancer_id \notin DOMAIN users_db
         THEN "frozen_then_exception"
    ELSE "order_selected"

\* select_freelancer without the owner test of lines 1707-1709
select_freelancer_result_no_owner_test(caller, order_id, freelancer_id) ==
    IF caller \notin DOMAIN users_db THEN "exception"
    ELSE IF order_id \notin DOMAIN orders_db THEN "error_not_your_order"
    ELSE IF orders_db[order_id].type # "order" THEN "exception"
    ELSE IF get_user_balance(users_db, caller) < orders_db[order_id].budget
         THEN "insufficient_funds"
    ELSE IF freelancer_id \notin DOMAIN users_db
         THEN "frozen_then_exception"
    ELSE "order_selected"

\* The checks of the handler, in source order, up to the first write.
select_freelancer_result(caller, order_id, freelancer_id) ==
    IF caller \notin DOMAIN users_db THEN "exception"      \* user['language']
    ELSE IF order_id \notin DOMAIN orders_db
            \/ orders_db[order_id].client_id # caller
         THEN "error_not_your_order"
    ELSE IF orders_db[order_id].type # "order" THEN "exception"  \* order['budget']
    ELSE IF get_user_balance(users_db, caller) < orders_db[order_id].budget
         THEN "insufficient_funds"
    ELSE IF freelancer_id \notin DOMAIN users_db
         THEN "frozen_then_exception"                      \* freelancer.get
    ELSE "order_selected"

select_freelancer(caller, order_id, freelancer_id) ==
    LET res == select_freelancer_result(caller, order_id, freelancer_id) IN
    /\ users_db' =
          IF res \in {"frozen_then_exception", "order_selected"}
          THEN freeze_balance(users_db, caller, orders_db[order_id].budget)
          ELSE users_db
    /\ orders_db' =
          IF res = "order_selected"
          THEN [orders_db EXCEPT ![order_id].selected_freelancer = freelancer_id,
                                 ![order_id].status = "in_progress",
                                 ![order_id].client_confirmed = FALSE,
                                 ![order_id].freelancer_confirmed = FALSE]
          ELSE orders_db
    /\ reply' = Answer("select_freelancer", res)
    /\ UNCHANGED <<responses_db, reviews_db, escrowStores, config, counters>>

\* -------------------------------------------------------- confirm_completion
\* confirm_completion without the participant test of lines 1804-1807
confirm_completion_result_no_participant_test(caller, order_id) ==
    IF order_id \notin DOMAIN orders_db \/ caller \notin DOMAIN users_db
    THEN "error"
    ELSE "confirmed"

confirm_completion_result(caller, order_id) ==
    IF order_id \notin DOMAIN orders_db \/ caller \notin DOMAIN users_db
    THEN "error"
    ELSE IF caller \notin {orders_db[order_id].client_id,
                           orders_db[order_id].selected_freelancer}
         THEN "error_not_your_order"
    ELSE "confirmed"

\* a confirmation that flips the caller's flag instead of setting it
confirm_flags_toggle(order, caller) ==
    IF caller = order.client_id
    THEN [order EXCEPT !.client_confirmed = ~@]
    ELSE [order EXCEPT !.freelancer_confirmed = ~@]

\* the order after the caller's flag is set (is_client is tested first)
confirm_flags(order, caller) ==
    IF caller = order.client_id
    THEN [order EXCEPT !.client_confirmed = TRUE]
    ELSE [order EXCEPT !.freelancer_confirmed = TRUE]

\* confirm_completion from get_order to transfer_frozen_to_user: plain calls,
\* no await among them
confirm_completion_sync(caller, order_id) ==
    LET res == confirm_completion_result(caller, order_id) IN
    /\ IF res # "confirmed"
       THEN /\ reply' = Answer("confirm_completion", res)
            /\ UNCHANGED <<users_db, orders_db>>
       ELSE LET order == confirm_flags(orders_db[order_id], caller) IN
            IF order.client_confirmed /\ order.freelancer_confirmed
            THEN /\ orders_db' = [orders_db EXCEPT ![order_id] =
                                     [order EXCEPT !.status = "completed"]]
                 /\ users_db' = transfer_frozen_to_user(users_db,
                                     order.client_id, order.selected_freelancer,
                                     order.budget)
                 /\ reply' = Answer("confirm_completion", "order_completed")
            ELSE /\ orders_db' = [orders_db EXCEPT ![order_id] = order]
                 /\ users_db' = users_db
                 /\ reply' = Answer("confirm_completion", "waiting_other_party")
    /\ UNCHANGED <<responses_db, reviews_db, escrowStores, counters>>

\* the handler run to its end with no other handler in between
confirm_completion(caller, order_id) ==
    /\ confirm_completion_sync(caller, order_id)
    /\ UNCHANGED config

\* ------------------------------------------------------------ service orders
\* confirm_service_order: the price text of the service parsed to an amount.
confirm_service_order(caller, service_id) ==
    /\ IF service_id \notin DOMAIN services_db \/ caller \notin DOMAIN users_db
       THEN /\ reply' = Answer("confirm_service_order", "error")
            /\ UNCHANGED <<users_db, orders_db, counters, fsm>>
       ELSE LET amount == services_db[service_id].price IN
            IF amount > 0 /\ get_user_balance(users_db, caller) < amount
            THEN /\ reply' = Answer("confirm_service_order", "service_order_insufficient")
                 /\ UNCHANGED <<users_db, orders_db, counters, fsm>>
            ELSE /\ counters.order_id <= MaxOrders
                 /\ users_db' = IF amount > 0
                                THEN freeze_balance(users_db, caller, amount)
                                ELSE users_db
                 /\ orders_db' = Put(orders_db, counters.order_id,
                                     NewServiceOrder(caller,
                                         services_db[service_id].user_id, amount))
                 /\ counters' = [counters EXCEPT !.order_id = @ + 1]
                 /\ fsm' = [fsm EXCEPT ![caller] = Cleared]
                 /\ reply' = Answer("confirm_service_order", "service_order_success")
    /\ UNCHANGED <<responses_db, reviews_db, withdrawals_db, config>>

admin_confirm_service_order(caller, order_id) ==
    /\ IF ~is_admin(caller)
       THEN /\ reply' = Answer("admin_confirm_service_order", "no_access")
            /\ UNCHANGED orders_db
       ELSE IF order_id \notin DOMAIN orders_db
               \/ orders_db[order_id].type # "service_order"
       THEN /\ reply' = Answer("admin_confirm_service_order", "not_found")
            /\ UNCHANGED orders_db
       ELSE /\ orders_db' = [orders_db EXCEPT ![order_id].status = "in_progress",
                                              ![order_id].confirmed_by_admin = TRUE]
            /\ reply' = Answer("admin_confirm_service_order", "confirmed")
    /\ UNCHANGED <<users_db, responses_db, reviews_db, escrowStores,
                   config, counters>>

admin_reject_service_order(caller, order_id) ==
    /\ IF ~is_admin(caller)
       THEN /\ reply' = Answer("admin_reject_service_order", "no_access")
            /\ UNCHANGED <<users_db, orders_db>>
       ELSE IF order_id \notin DOMAIN orders_db
               \/ orders_db[order_id].type # "service_order"
       THEN /\ reply' = Answer("admin_reject_service_order", "not_found")
            /\ UNCHANGED <<users_db, orders_db>>
       ELSE /\ users_db' = IF orders_db[order_id].amount > 0
                           THEN unfreeze_balance(users_db,
                                    orders_db[order_id].client_id,
                                    orders_db[order_id].amount)
                           ELSE users_db
            /\ orders_db' = [orders_db EXCEPT ![order_id].status = "cancelled"]
            /\ reply' = Answer("admin_reject_service_order", "rejected")
    /\ UNCHANGED <<responses_db, reviews_db, escrowStores, config, counters>>

service_work_completed(caller, order_id) ==
    /\ IF \/ order_id \notin DOMAIN orders_db
          \/ caller \notin DOMAIN users_db
          \/ orders_db[order_id].freelancer_id # caller
       THEN /\ reply' = Answer("service_work_completed", "error")
            /\ UNCHANGED orders_db
       ELSE /\ orders_db' = [orders_db EXCEPT ![order_id].freelancer_completed = TRUE]
            /\ reply' = Answer("service_work_completed", "sent_to_client")
    /\ UNCHANGED <<users_db, responses_db, reviews_db, escrowStores,
                   config, counters>>

\* client_confirm_service tests neither the order's type nor its status; on
\* a base-flow order it raises at order['freelancer_id'], after the update.
client_confirm_service(caller, order_id) ==
    /\ IF \/ order_id \notin DOMAIN orders_db
          \/ caller \notin DOMAIN users_db
          \/ orders_db[order_id].client_id # caller
       THEN /\ reply' = Answer("client_confirm_service", "error")
            /\ UNCHANGED <<users_db, orders_db>>
       ELSE /\ users_db' = IF orders_db[order_id].amount > 0
                           THEN transfer_frozen_to_user(users_db,
                                    orders_db[order_id].client_id,
                                    orders_db[order_id].freelancer_id,
                                    orders_db[order_id].amount)
                           ELSE users_db
            /\ orders_db' = [orders_db EXCEPT ![order_id].status = "completed"]
            /\ reply' = Answer("client_confirm_service",
                               IF orders_db[order_id].type = "service_order"
                               THEN "completed" ELSE "exception")
    /\ UNCHANGED <<responses_db, reviews_db, escrowStores, config, counters>>

\* ---------------------------------------------------------- admin: orders
admin_delete_order(caller, order_id) ==
    /\ IF ~is_admin(caller)
       THEN /\ reply' = Answer("admin_delete_order", "no_access")
            /\ UNCHANGED orderStores
       ELSE IF order_id \notin DOMAIN orders_db
       THEN /\ reply' = Answer("admin_delete_order", "not_found")
            /\ UNCHANGED orderStores
       ELSE /\ orders_db' = Del(orders_db, order_id)
            /\ responses_db' = Del(responses_db, order_id)
            /\ reviews_db' = [k \in {x \in DOMAIN reviews_db : x[1] # order_id}
                                  |-> reviews_db[k]]
            /\ reply' = Answer("admin_delete_order", "deleted")
    /\ UNCHANGED <<users_db, escrowStores, config, counters>>

\* ------------------------------------------------------------------ top-up
\* topup_balance_start: the callback only moves the chat into the dialog.
topup_balance_start(user_id) ==
    /\ user_id \in DOMAIN users_db
    /\ fsm' = [fsm EXCEPT ![user_id].state = "waiting_topup_amount"]
    /\ reply' = Answer("topup_balance_start", "topup_amount")
    /\ UNCHANGED <<users_db, orderStores, withdrawals_db, config, counters>>

topup_amount_received(user_id, amount) ==
    /\ user_id \in DOMAIN users_db
    /\ fsm[user_id].state = "waiting_topup_amount"
    /\ IF amount <= 0
       THEN /\ reply' = Answer("topup_amount_received", "invalid_amount")
            /\ UNCHANGED <<withdrawals_db, counters, fsm>>
       ELSE /\ counters.withdrawal_id <= MaxRequests
            /\ withdrawals_db' = Put(withdrawals_db, counters.withdrawal_id,
                                     NewRequest(user_id, "topup", amount,
                                         get_user_balance(users_db, user_id)))
            /\ counters' = [counters EXCEPT !.withdrawal_id = @ + 1]
            /\ fsm' = [fsm EXCEPT ![user_id] = Cleared]
            /\ reply' = Answer("topup_amount_received", "topup_request_sent")
    /\ UNCHANGED <<users_db, orderStores, config>>

\* admin_confirm_topup does not look at the request's status.
admin_confirm_topup(caller, request_id) ==
    /\ IF ~is_admin(caller)
       THEN /\ reply' = Answer("admin_confirm_topup", "no_access")
            /\ UNCHANGED <<users_db, withdrawals_db>>
       ELSE IF request_id \notin DOMAIN withdrawals_db
       THEN /\ reply' = Answer("admin_confirm_topup", "not_found")
            /\ UNCHANGED <<users_db, withdrawals_db>>
       ELSE IF withdrawals_db[request_id].type = "none"
       THEN /\ reply' = Answer("admin_confirm_topup", "exception")
            /\ UNCHANGED <<users_db, withdrawals_db>>
       ELSE IF withdrawals_db[request_id].type # "topup"
       THEN /\ reply' = Answer("admin_confirm_topup", "not_found")
            /\ UNCHANGED <<users_db, withdrawals_db>>
       ELSE /\ users_db' = add_to_balance(users_db,
                               withdrawals_db[request_id].user_id,
                               withdrawals_db[request_id].amount)
            /\ TotalMoney(users_db') <= MaxMoney
            /\ withdrawals_db' = [withdrawals_db EXCEPT
                                     ![request_id].status = "completed"]
            /\ reply' = Answer("admin_confirm_topup", "confirmed")
    /\ UNCHANGED <<orderStores, fsm, config, counters>>

\* -------------------------------------------------------------- withdrawal
\* start_withdrawal / withdraw_balance_start
start_withdrawal(user_id) ==
    /\ user_id \in DOMAIN users_db
    /\ IF get_user_balance(users_db, user_id) <= 0
       THEN /\ reply' = Answer("start_withdrawal", "withdraw_insufficient_funds")
            /\ UNCHANGED fsm
       ELSE /\ fsm' = [fsm EXCEPT ![user_id].state = "waiting_amount"]
            /\ reply' = Answer("start_withdrawal", "withdraw_amount")
    /\ UNCHANGED <<users_db, orderStores, withdrawals_db, config, counters>>

withdrawal_amount_received(user_id, amount) ==
    /\ user_id \in DOMAIN users_db
    /\ fsm[user_id].state = "waiting_amount"
    /\ IF amount <= 0
       THEN /\ reply' = Answer("withdrawal_amount_received", "withdraw_invalid_amount")
            /\ UNCHANGED fsm
       ELSE IF amount > get_user_balance(users_db, user_id)
       THEN /\ reply' = Answer("withdrawal_amount_received",
                               "withdraw_insufficient_funds")
            /\ UNCHANGED fsm
       ELSE /\ fsm' = [fsm EXCEPT ![user_id].state = "waiting_phone",
                                  ![user_id].amount = amount]
            /\ reply' = Answer("withdrawal_amount_received", "withdraw_phone")
    /\ UNCHANGED <<users_db, orderStores, withdrawals_db, config, counters>>

withdrawal_phone_received(user_id) ==
    /\ user_id \in DOMAIN users_db
    /\ fsm[user_id].state = "waiting_phone"
    /\ fsm' = [fsm EXCEPT ![user_id].temp_withdrawal = fsm[user_id].amount]
    /\ reply' = Answer("withdrawal_phone_received", "withdraw_confirm")
    /\ UNCHANGED <<users_db, orderStores, withdrawals_db, config, counters>>

\* confirm_withdrawal is a callback: no state filter; the amount it debits
\* is the one checked when withdrawal_amount_received ran, and the result
\* of subtract_from_balance is not looked at.
confirm_withdrawal(user_id) ==
    /\ IF user_id \notin DOMAIN users_db
       THEN /\ reply' = Answer("confirm_withdrawal", "exception")
            /\ UNCHANGED <<users_db, withdrawals_db, counters, fsm>>
       ELSE IF fsm[user_id].temp_withdrawal = 0
       THEN /\ reply' = Answer("confirm_withdrawal", "no_data")
            /\ UNCHANGED <<users_db, withdrawals_db, counters, fsm>>
       ELSE /\ counters.withdrawal_id <= MaxRequests
            /\ withdrawals_db' = Put(withdrawals_db, counters.withdrawal_id,
                                     NewRequest(user_id, "none",
                                         fsm[user_id].temp_withdrawal,
                                         get_user_balance(users_db, user_id)))
            /\ counters' = [counters EXCEPT !.withdrawal_id = @ + 1]
            /\ users_db' = subtract_from_balance(users_db, user_id,
                                                 fsm[user_id].temp_withdrawal)
            /\ fsm' = [fsm EXCEPT ![user_id] = Cleared]
            /\ reply' = Answer("confirm_withdrawal", "withdraw_success")
    /\ UNCHANGED <<orderStores, config>>

cancel_withdrawal(user_id) ==
    /\ user_id \in DOMAIN users_db
    /\ fsm' = [fsm EXCEPT ![user_id] = Cleared]
    /\ reply' = Answer("cancel_withdrawal", "cancelled")
    /\ UNCHANGED <<users_db, orderStores, withdrawals_db, config, counters>>

\* admin_confirm_withdrawal / admin_reject_withdrawal: no is_admin test.
admin_confirm_withdrawal(caller, withdrawal_id) ==
    /\ IF withdrawal_id \notin DOMAIN withdrawals_db
       THEN /\ reply' = Answer("admin_confirm_withdrawal", "not_found")
            /\ UNCHANGED withdrawals_db
       ELSE IF withdrawals_db[withdrawal_id].status # "pending"
       THEN /\ reply' = Answer("admin_confirm_withdrawal", "already_processed")
            /\ UNCHANGED withdrawals_db
       ELSE /\ withdrawals_db' = [withdrawals_db EXCEPT
                                     ![withdrawal_id].status = "completed"]
            /\ reply' = Answer("admin_confirm_withdrawal", "confirmed")
    /\ UNCHANGED <<users_db, orderStores, fsm, config, counters>>

\* admin_reject_withdrawal without the status test of lines 3922-3924
admin_reject_withdrawal_no_status_test(caller, withdrawal_id) ==
    /\ IF withdrawal_id \notin DOMAIN withdrawals_db
       THEN /\ reply' = Answer("admin_reject_withdrawal", "not_found")
            /\ UNCHANGED <<users_db, withdrawals_db>>
       ELSE /\ withdrawals_db' = [withdrawals_db EXCEPT
                                     ![withdrawal_id].status = "rejected"]
            /\ users_db' = add_to_balance(users_db,
                               withdrawals_db[withdrawal_id].user_id,
                               withdrawals_db[withdrawal_id].amount)
            /\ TotalMoney(users_db') <= MaxMoney
            /\ reply' = Answer("admin_reject_withdrawal", "rejected")
    /\ UNCHANGED <<orderStores, fsm, config, counters>>

admin_reject_withdrawal(caller, withdrawal_id) ==
    /\ IF withdrawal_id \notin DOMAIN withdrawals_db
       THEN /\ reply' = Answer("admin_reject_withdrawal", "not_found")
            /\ UNCHANGED <<users_db, withdrawals_db>>
       ELSE IF withdrawals_db[withdrawal_id].status # "pending"
       THEN /\ reply' = Answer("admin_reject_withdrawal", "already_processed")
            /\ UNCHANGED <<users_db, withdrawals_db>>
       ELSE /\ withdrawals_db' = [withdrawals_db EXCEPT
                                     ![withdrawal_id].status = "rejected"]
            /\ users_db' = add_to_balance(users_db,
                               withdrawals_db[withdrawal_id].user_id,
                               withdrawals_db[withdrawal_id].amount)
            /\ TotalMoney(users_db') <= MaxMoney
            /\ reply' = Answer("admin_reject_withdrawal", "rejected")
    /\ UNCHANGED <<orderStores, fsm, config, counters>>

\* ------------------------------------------------------------- the machines
\* Base flow: registration, the admin crediting clients, the order dialog,
\* selection of the responder, the confirmations, the admin's order
\* deletion.  Callers of the order callbacks include an id that never
\* registered (the admin's).
Next ==
    \/ \E u \in UserIds : complete_registration(u, RoleOf(u))
    \/ \E c \in ADMIN_IDS, u \in Clients, a \in {"add", "subtract", "set"},
          n \in 0..MaxMoney :
          (a = "set" \/ n > 0) /\ admin_balance_action(c, u, a, n)
    \/ \E u \in UserIds, b \in Amounts : order_contact_received(u, b)
    \/ \E c \in Callers, o \in OrderIds, f \in Selectable :
          select_freelancer(c, o, f)
    \/ \E c \in Callers, o \in OrderIds : confirm_completion(c, o)
    \/ \E c \in Callers, o \in OrderIds : client_confirm_service(c, o)
    \/ \E c \in ADMIN_IDS, o \in OrderIds : admin_delete_order(c, o)

Spec == Init /\ [][Next]_vars

\* ------------------------------------------------ the ledger, called directly
\* One call of a ledger function; every write of a balance in src/main.py is
\* one of these five, the admin's "set", or create_user.  The reply is the
\* function's return value.
Returned(op, db) == Answer(op, IF db = users_db THEN "False" ELSE "True")

call_add_to_balance(user_id, amount) ==
    /\ users_db' = add_to_balance(users_db, user_id, amount)
    /\ TotalMoney(users_db') <= MaxMoney
    /\ reply' = Returned("add_to_balance", users_db')
    /\ UNCHANGED <<orderStores, escrowStores, config, counters>>

call_subtract_from_balance(user_id, amount) ==
    /\ users_db' = subtract_from_balance(users_db, user_id, amount)
    /\ reply' = Returned("subtract_from_balance", users_db')
    /\ UNCHANGED <<orderStores, escrowStores, config, counters>>

call_freeze_balance(user_id, amount) ==
    /\ users_db' = freeze_balance(users_db, user_id, amount)
    /\ reply' = Returned("freeze_balance", users_db')
    /\ UNCHANGED <<orderStores, escrowStores, config, counters>>

call_unfreeze_balance(user_id, amount) ==
    /\ users_db' = unfreeze_balance(users_db, user_id, amount)
    /\ reply' = Returned("unfreeze_balance", users_db')
    /\ UNCHANGED <<orderStores, escrowStores, config, counters>>

call_transfer_frozen_to_user(from_user_id, to_user_id, amount) ==
    /\ users_db' = transfer_frozen_to_user(users_db, from_user_id,
                                           to_user_id, amount)
    /\ reply' = Returned("transfer_frozen_to_user", users_db')
    /\ UNCHANGED <<orderStores, escrowStores, config, counters>>

\* Any sequence of ledger calls with amounts > 0 on registered and on
\* unknown user ids, of the admin's balance buttons, and of registrations.
NextLedger ==
    \/ \E u \in Callers, n \in Amounts : call_add_to_balance(u, n)
    \/ \E u \in Callers, n \in Amounts : call_subtract_from_balance(u, n)
    \/ \E u \in Callers, n \in Amounts : call_freeze_balance(u, n)
    \/ \E u \in Callers, n \in Amounts : call_unfreeze_balance(u, n)
    \/ \E u \in Callers, v \in Callers, n \in Amounts :
          call_transfer_frozen_to_user(u, v, n)
    \/ \E c \in Callers, u \in UserIds, a \in {"add", "subtract", "set"},
          n \in 0..MaxMoney :
          (a = "set" \/ n > 0) /\ admin_balance_action(c, u, a, n)
    \/ \E u \in UserIds : complete_registration(u, RoleOf(u))

SpecLedger == Init /\ [][NextLedger]_vars

\* ------------------------------------------------- the telebot variant
\* src/handlers.py keeps users and orders in src/database.py: no balances
\* (the balance fields of a user stay 0 and are never read), no escrow.
InitTelebot ==
    /\ users_db = [u \in UserIds |->
                      [role |-> RoleOf(u), balance |-> 0, frozen_balance |-> 0]]
    /\ orders_db = Empty
    /\ responses_db = Empty
    /\ reviews_db = Empty
    /\ withdrawals_db = Empty
    /\ services_db = Empty
    /\ bot = "handlers"
    /\ counters = [order_id |-> 1, withdrawal_id |-> 1]
    /\ fsm = [u \in UserIds |-> Cleared]
    /\ reply = Answer("start", "none")
    /\ tasks = NoTasks
    /\ limiter = NoLimiter

\* handlers.py order dialog: create_order_start admits only role client,
\* order_contact_received stores the order; no balance is looked at.
order_contact_received_telebot(user_id, budget) ==
    /\ user_id \in DOMAIN users_db
    /\ users_db[user_id].role = "client"
    /\ counters.order_id <= MaxOrders
    /\ orders_db' = Put(orders_db, counters.order_id, NewOrder(user_id, budget))
    /\ counters' = [counters EXCEPT !.order_id = @ + 1]
    /\ reply' = Answer("order_contact_received", "order_created")
    /\ UNCHANGED <<users_db, responses_db, reviews_db, escrowStores, config>>

accept_freelancer(caller, freelancer_id, order_id) ==
    /\ IF caller \notin DOMAIN users_db
       THEN /\ reply' = Answer("accept_freelancer", "no_answer")
            /\ UNCHANGED orders_db
       ELSE IF order_id \notin DOMAIN orders_db
               \/ orders_db[order_id].client_id # caller
       THEN /\ reply' = Answer("accept_freelancer", "error_not_your_order")
            /\ UNCHANGED orders_db
       ELSE /\ orders_db' = [orders_db EXCEPT ![order_id].status = "in_progress",
                                              ![order_id].freelancer_id = freelancer_id]
            /\ reply' = Answer("accept_freelancer", "freelancer_selected")
    /\ UNCHANGED <<users_db, responses_db, reviews_db, escrowStores,
                   config, counters>>

complete_order(caller, order_id) ==
    /\ IF caller \notin DOMAIN users_db
       THEN /\ reply' = Answer("complete_order", "no_answer")
            /\ UNCHANGED orders_db
       ELSE IF order_id \notin DOMAIN orders_db
       THEN /\ reply' = Answer("complete_order", "error_order_not_found")
            /\ UNCHANGED orders_db
       ELSE IF /\ orders_db[order_id].client_id # caller
               /\ orders_db[order_id].freelancer_id # caller
       THEN /\ reply' = Answer("complete_order", "error_not_your_order")
            /\ UNCHANGED orders_db
       ELSE /\ orders_db' = [orders_db EXCEPT ![order_id].status = "completed"]
            /\ reply' = Answer("complete_order", "order_completed")
    /\ UNCHANGED <<users_db, responses_db, reviews_db, escrowStores,
                   config, counters>>

NextTelebot ==
    \/ \E u \in UserIds, b \in Amounts : order_contact_received_telebot(u, b)
    \/ \E c \in Callers, f \in Freelancers, o \in OrderIds :
          accept_freelancer(c, f, o)
    \/ \E c \in Callers, o \in OrderIds : complete_order(c, o)

\* Either bot, from its start.
InitBots == Init \/ InitTelebot

NextBots ==
    \/ bot = "main" /\ Next
    \/ bot = "handlers" /\ NextTelebot

SpecBots == InitBots /\ [][NextBots]_vars

\* ------------------------------------------------- the escrow requests
\* Top-ups and withdrawals of one user: the admin's balance buttons, the two
\* dialogs, and the admin callbacks on a request, which any chat can send
\* (callback data is chosen by the sender).
EscrowUsers == {1}

NextEscrow ==
    \/ \E c \in ADMIN_IDS, u \in EscrowUsers, a \in {"add", "subtract"},
          n \in Amounts : admin_balance_action(c, u, a, n)
    \/ \E u \in EscrowUsers : topup_balance_start(u)
    \/ \E u \in EscrowUsers, n \in 0..MaxMoney : topup_amount_received(u, n)
    \/ \E c \in Callers, r \in RequestIds : admin_confirm_topup(c, r)
    \/ \E u \in EscrowUsers : start_withdrawal(u)
    \/ \E u \in EscrowUsers, n \in 0..MaxMoney : withdrawal_amount_received(u, n)
    \/ \E u \in EscrowUsers : withdrawal_phone_received(u)
    \/ \E u \in EscrowUsers : confirm_withdrawal(u)
    \/ \E u \in EscrowUsers : cancel_withdrawal(u)
    \/ \E c \in Callers, r \in RequestIds : admin_confirm_withdrawal(c, r)
    \/ \E c \in Callers, r \in RequestIds : admin_reject_withdrawal(c, r)

SpecEscrow == Init /\ [][NextEscrow]_vars

\* ------------------------------------------------------------- responses
\* get_responses: the freelancer ids of an order's response list
get_responses(db, order_id) ==
    IF order_id \in DOMAIN db
    THEN {db[order_id][i] : i \in DOMAIN db[order_id]}
    ELSE {}

\* add_response without the duplicate test
add_response_no_duplicate_test(db, order_id, freelancer_id) ==
    Put(db, order_id,
        Append(IF order_id \in DOMAIN db THEN db[order_id] ELSE <<>>,
               freelancer_id))

\* add_response (main.py and database.py alike): the list is created on
\* first use, a freelancer already in it is not appended again.
add_response(db, order_id, freelancer_id) ==
    IF freelancer_id \in get_responses(db, order_id)
    THEN db
    ELSE Put(db, order_id,
             Append(IF order_id \in DOMAIN db THEN db[order_id] ELSE <<>>,
                    freelancer_id))

\* main.py respond_to_order: role freelancer, not the order's client; the
\* order itself is not looked up before add_response.
respond_to_order(caller, order_id) ==
    /\ IF caller \notin DOMAIN users_db \/ users_db[caller].role # "freelancer"
       THEN /\ reply' = Answer("respond_to_order", "error_not_freelancer")
            /\ UNCHANGED responses_db
       ELSE IF order_id \in DOMAIN orders_db
               /\ orders_db[order_id].client_id = caller
       THEN /\ reply' = Answer("respond_to_order", "own_order")
            /\ UNCHANGED responses_db
       ELSE /\ responses_db' = add_response(responses_db, order_id, caller)
            /\ reply' = Answer("respond_to_order",
                               IF caller \in get_responses(responses_db, order_id)
                               THEN "response_exists" ELSE "response_sent")
    /\ UNCHANGED <<users_db, orders_db, reviews_db, escrowStores,
                   config, counters>>

\* handlers.py respond_to_order: the order must exist; neither the caller's
\* role nor the order's client is looked at.
respond_to_order_telebot(caller, order_id) ==
    /\ IF caller \notin DOMAIN users_db
       THEN /\ reply' = Answer("respond_to_order", "no_answer")
            /\ UNCHANGED responses_db
       ELSE IF order_id \notin DOMAIN orders_db
       THEN /\ reply' = Answer("respond_to_order", "error_order_not_found")
            /\ UNCHANGED responses_db
       ELSE /\ responses_db' = add_response(responses_db, order_id, caller)
            /\ reply' = Answer("respond_to_order",
                               IF caller \in get_responses(responses_db, order_id)
                               THEN "response_exists" ELSE "response_sent")
    /\ UNCHANGED <<users_db, orders_db, reviews_db, escrowStores,
                   config, counters>>

\* change_role: the menu button flips the caller's role.
change_role(user_id) ==
    /\ user_id \in DOMAIN users_db
    /\ users_db' = [users_db EXCEPT ![user_id].role =
                       IF @ = "freelancer" THEN "client" ELSE "freelancer"]
    /\ reply' = Answer("change_role", "main_menu")
    /\ UNCHANGED <<orderStores, escrowStores, config, counters>>

\* Orders, responses and selection in either bot.  User 1 creates the
\* orders and may flip role; the respond callback comes from user 1, from
\* the freelancer 2 or from an id that never registered; the select /
\* accept callbacks carry the id of user 1 or 2.
RoleChangers == {1}
Respondents  == {1, 2} \cup ADMIN_IDS
Candidates   == {1, 2}

NextResponses ==
    \/ /\ bot = "main"
       /\ \/ \E c \in ADMIN_IDS, u \in RoleChangers :
                admin_balance_action(c, u, "add", 1)
          \/ \E u \in RoleChangers : order_contact_received(u, 1)
          \/ \E u \in RoleChangers : change_role(u)
          \/ \E c \in Respondents, o \in OrderIds : respond_to_order(c, o)
          \/ \E c \in Respondents, o \in OrderIds, f \in Candidates :
                select_freelancer(c, o, f)
    \/ /\ bot = "handlers"
       /\ \/ \E u \in RoleChangers : order_contact_received_telebot(u, 1)
          \/ \E c \in Respondents, o \in OrderIds :
                respond_to_order_telebot(c, o)
          \/ \E c \in Respondents, f \in Candidates, o \in OrderIds :
                accept_freelancer(c, f, o)

SpecResponses == InitBots /\ [][NextResponses]_vars

\* ------------------------------------------- the ledger, any amount sign
\* The five ledger functions and the admin's balance callback take the
\* amount as it comes: admin_balance_action reads float(parts[4]) from the
\* callback data.  Amount 0 changes nothing in any of them; -1 stands for
\* the negative amounts.  Balances are kept within -MaxMoney..MaxMoney.
SignedAmounts == {-1} \cup Amounts
LedgerUsers   == {1, 2}

InRange(db) ==
    \A u \in DOMAIN db :
        /\ db[u].balance \in -MaxMoney..MaxMoney
        /\ db[u].frozen_balance \in -MaxMoney..MaxMoney

NextAmounts ==
    /\ \/ \E u \in LedgerUsers, n \in SignedAmounts : call_add_to_balance(u, n)
       \/ \E u \in LedgerUsers, n \in SignedAmounts :
             call_subtract_from_balance(u, n)
       \/ \E u \in LedgerUsers, n \in SignedAmounts : call_freeze_balance(u, n)
       \/ \E u \in LedgerUsers, n \in SignedAmounts : call_unfreeze_balance(u, n)
       \/ \E u \in LedgerUsers, v \in LedgerUsers, n \in SignedAmounts :
             call_transfer_frozen_to_user(u, v, n)
       \/ \E c \in ADMIN_IDS, u \in LedgerUsers, a \in {"add", "subtract"},
             n \in -1..MaxMoney : admin_balance_action(c, u, a, n)
    /\ InRange(users_db')

SpecAmounts == Init /\ [][NextAmounts]_vars

\* ---------------------------------------------------- the service orders
\* A client orders the priced service of freelancer 2; the admin confirms
\* or rejects the order, the freelancer reports the work done, the client
\* confirms it.  The admin callbacks and the client's confirmation can be
\* sent by any chat and at any time (callback data is chosen by the sender).
ServiceClients == {1}

ServiceCallers == {1, 2} \cup ADMIN_IDS

NextService ==
    \/ \E c \in ADMIN_IDS, u \in ServiceClients, n \in Amounts :
          admin_balance_action(c, u, "add", n)
    \/ \E u \in ServiceClients \cup ADMIN_IDS, s \in ServiceIds :
          confirm_service_order(u, s)
    \/ \E c \in ServiceCallers, o \in OrderIds :
          admin_confirm_service_order(c, o)
    \/ \E c \in ServiceCallers, o \in OrderIds :
          admin_reject_service_order(c, o)
    \/ \E c \in ServiceCallers, o \in OrderIds : service_work_completed(c, o)
    \/ \E c \in ServiceCallers, o \in OrderIds : client_confirm_service(c, o)

SpecService == Init /\ [][NextService]_vars

\* ------------------------------------------------------- the order counter
\* Orders of both kinds are created and deleted: create_order and
\* create_service_order draw their ids from the one counter.
NextOrders ==
    \/ \E c \in ADMIN_IDS, u \in ServiceClients, n \in Amounts :
          admin_balance_action(c, u, "add", n)
    \/ \E u \in ServiceClients, b \in Amounts : order_contact_received(u, b)
    \/ \E u \in ServiceClients, s \in ServiceIds : confirm_service_order(u, s)
    \/ \E c \in Callers, o \in OrderIds : admin_delete_order(c, o)

SpecOrders == Init /\ [][NextOrders]_vars

\* ---------------------------------------------------------------- reviews
\* review_key: f"{order_id}_{reviewer_id}_{reviewed_id}".  The decimal text
\* of an integer holds no '_', so two triples give the same key only when
\* they are equal: the key is the triple.
review_key(order_id, reviewer_id, reviewed_id) ==
    <<order_id, reviewer_id, reviewed_id>>

\* add_review that stores over a review already there
add_review_overwrite(db, order_id, reviewer_id, reviewed_id, review_data) ==
    Put(db, review_key(order_id, reviewer_id, reviewed_id), review_data)

\* add_review: the store after the call; it looks at reviews_db only
add_review(db, order_id, reviewer_id, reviewed_id, review_data) ==
    IF review_key(order_id, reviewer_id, reviewed_id) \in DOMAIN db
    THEN db
    ELSE Put(db, review_key(order_id, reviewer_id, reviewed_id), review_data)

\* add_review's return value
add_review_returns(db, order_id, reviewer_id, reviewed_id) ==
    review_key(order_id, reviewer_id, reviewed_id) \notin DOMAIN db

\* can_leave_review without the test of the order's status
can_leave_review_no_status_test(order_id, reviewer_id, reviewed_id) ==
    IF order_id \notin DOMAIN orders_db
    THEN FALSE
    ELSE IF reviewer_id \notin
              ({orders_db[order_id].client_id}
                  \cup {orders_db[order_id].selected_freelancer}) \ {None}
    THEN FALSE
    ELSE review_key(order_id, reviewer_id, reviewed_id) \notin DOMAIN reviews_db

\* can_leave_review: reviewer_id is an int, so it equals a missing
\* selected_freelancer (None) for no caller.
can_leave_review(order_id, reviewer_id, reviewed_id) ==
    IF order_id \notin DOMAIN orders_db
       \/ orders_db[order_id].status # "completed"
    THEN FALSE
    ELSE IF reviewer_id \notin
              ({orders_db[order_id].client_id}
                  \cup {orders_db[order_id].selected_freelancer}) \ {None}
    THEN FALSE
    ELSE review_key(order_id, reviewer_id, reviewed_id) \notin DOMAIN reviews_db

\* start_review: order, reviewed and reviewer all come from the callback
\* data; the caller only has to be registered.
start_review(caller, order_id, reviewed_id, reviewer_id) ==
    /\ IF caller \notin DOMAIN users_db
       THEN /\ reply' = Answer("start_review", "no_answer")
            /\ UNCHANGED fsm
       ELSE IF ~can_leave_review(order_id, reviewer_id, reviewed_id)
       THEN /\ reply' = Answer("start_review", "review_error")
            /\ UNCHANGED fsm
       ELSE /\ fsm' = [fsm EXCEPT ![caller].state = "waiting_rating",
                                  ![caller].review =
                                      [order_id |-> order_id,
                                       reviewed_id |-> reviewed_id,
                                       reviewer_id |-> reviewer_id,
                                       rating |-> fsm[caller].review.rating]]
            /\ reply' = Answer("start_review", "select_rating")
    /\ UNCHANGED <<users_db, orderStores, withdrawals_db, config, counters>>

rating_selected(caller, rating) ==
    /\ caller \in DOMAIN fsm
    /\ fsm[caller].state = "waiting_rating"
    /\ fsm' = [fsm EXCEPT ![caller].state = "waiting_review_text",
                          ![caller].review.rating = rating]
    /\ reply' = Answer("rating_selected", "enter_review_text")
    /\ UNCHANGED <<users_db, orderStores, withdrawals_db, config, counters>>

review_text_received(caller, text) ==
    /\ caller \in DOMAIN fsm
    /\ fsm[caller].state = "waiting_review_text"
    /\ LET data == fsm[caller].review IN
       /\ reviews_db' = add_review(reviews_db, data.order_id, data.reviewer_id,
                                   data.reviewed_id,
                                   [rating |-> data.rating, text |-> text])
       /\ reply' = Answer("review_text_received",
                          IF add_review_returns(reviews_db, data.order_id,
                                                data.reviewer_id, data.reviewed_id)
                          THEN "review_added" ELSE "review_error")
    /\ fsm' = [fsm EXCEPT ![caller] = Cleared]
    /\ UNCHANGED <<users_db, orders_db, responses_db, withdrawals_db,
                   config, counters>>

\* handlers.py start_review: user_states[user_id] is replaced; nothing about
\* the order is looked at, and the reviewer is whoever sends the comment.
start_review_telebot(caller, reviewed_user_id, order_id) ==
    /\ IF caller \notin DOMAIN users_db
       THEN /\ reply' = Answer("start_review", "no_answer")
            /\ UNCHANGED fsm
       ELSE /\ fsm' = [fsm EXCEPT ![caller] =
                          [Cleared EXCEPT !.state = "review_rating",
                                          !.review.order_id = order_id,
                                          !.review.reviewed_id = reviewed_user_id]]
            /\ reply' = Answer("start_review", "select_rating")
    /\ UNCHANGED <<users_db, orderStores, withdrawals_db, config, counters>>

rating_selected_telebot(caller, rating) ==
    /\ caller \in DOMAIN fsm
    /\ fsm[caller].state = "review_rating"
    /\ fsm' = [fsm EXCEPT ![caller].state = "review_comment",
                          ![caller].review.rating = rating]
    /\ reply' = Answer("rating_selected", "enter_review_text")
    /\ UNCHANGED <<users_db, orderStores, withdrawals_db, config, counters>>

review_comment_received(caller, text) ==
    /\ caller \in DOMAIN fsm
    /\ fsm[caller].state = "review_comment"
    /\ LET state == fsm[caller].review IN
       /\ reviews_db' = add_review(reviews_db, state.order_id, caller,
                                   state.reviewed_id,
                                   [rating |-> state.rating, text |-> text])
       /\ reply' = Answer("review_comment_received",
                          IF add_review_returns(reviews_db, state.order_id,
                                                caller, state.reviewed_id)
                          THEN "review_added" ELSE "review_error")
    /\ fsm' = [fsm EXCEPT ![caller] = Cleared]
    /\ UNCHANGED <<users_db, orders_db, responses_db, withdrawals_db,
                   config, counters>>

\* The stores as loaded from data/*.json with order #1 of client 1 on file,
\* freelancer 2 selected and the budget of 1 frozen (main.py), or freelancer
\* 2 accepted (handlers.py); neither party has confirmed yet.
InitReviews ==
    /\ bot \in {"main", "handlers"}
    /\ users_db = [u \in UserIds |->
                      [role |-> RoleOf(u), balance |-> 0,
                       frozen_balance |-> IF u = 1 /\ bot = "main" THEN 1 ELSE 0]]
    /\ orders_db = Put(Empty, 1,
                       IF bot = "main"
                       THEN [NewOrder(1, 1) EXCEPT !.status = "in_progress",
                                                   !.selected_freelancer = 2]
                       ELSE [NewOrder(1, 1) EXCEPT !.status = "in_progress",
                                                   !.freelancer_id = 2])
    /\ responses_db = Put(Empty, 1, <<2>>)
    /\ reviews_db = Empty
    /\ withdrawals_db = Empty
    /\ services_db = Empty
    /\ counters = [order_id |-> 2, withdrawal_id |-> 1]
    /\ fsm = [u \in UserIds |-> Cleared]
    /\ reply = Answer("start", "none")
    /\ tasks = NoTasks
    /\ limiter = NoLimiter

ReviewOrders == {1}

Parties == {1, 2}

\* the chats that run a review dialog: the client and an outsider
ReviewCallers == {1, 3}

\* (reviewer, reviewed) as a review button or a hand-made callback names them
ReviewPairs == {<<1, 2>>, <<2, 1>>, <<3, 2>>}

Ratings == {1, 5}

Texts == {"good", "bad"}

NextReviews ==
    \/ /\ bot = "main"
       /\ \/ \E c \in Parties, o \in ReviewOrders : confirm_completion(c, o)
          \/ \E c \in ReviewCallers \cup ADMIN_IDS, o \in ReviewOrders,
                p \in ReviewPairs : start_review(c, o, p[2], p[1])
          \/ \E c \in ReviewCallers, r \in Ratings : rating_selected(c, r)
          \/ \E c \in ReviewCallers, t \in Texts : review_text_received(c, t)
          \/ \E c \in ADMIN_IDS, o \in ReviewOrders : admin_delete_order(c, o)
    \/ /\ bot = "handlers"
       /\ \/ \E c \in Parties, o \in ReviewOrders : complete_order(c, o)
          \/ \E c \in ReviewCallers \cup ADMIN_IDS, o \in ReviewOrders :
                start_review_telebot(c, 2, o)
          \/ \E c \in ReviewCallers, r \in Ratings : rating_selected_telebot(c, r)
          \/ \E c \in ReviewCallers, t \in Texts : review_comment_received(c, t)

SpecReviews == InitReviews /\ [][NextReviews]_vars

\* ------------------------------------------- confirm_completion coroutines
\* aiogram runs each update's handler as a coroutine of one event loop: a
\* handler runs alone from one await to the next.  confirm_completion has
\* its first await after transfer_frozen_to_user (on the error paths, at
\* the answer); what follows it only sends messages.
AwaitsAfter(res) ==
    IF res = "order_completed" THEN "send_client"
    ELSE IF res = "waiting_other_party" THEN "edit_text"
    ELSE "answer"

Suspended == {"send_client", "send_freelancer", "edit_text", "answer"}

\* a confirm_completion that is suspended between get_order and its writes
\* and goes on with the order as it read it
confirm_completion_start_stale(caller, order_id) ==
    \/ /\ tasks[caller].pc = "idle"
       /\ confirm_completion_result(caller, order_id) = "confirmed"
       /\ tasks' = [tasks EXCEPT ![caller] =
                        [pc |-> "read", order_id |-> order_id,
                         order |-> orders_db[order_id]]]
       /\ UNCHANGED <<users_db, orderStores, escrowStores, counters, reply,
                      services_db, bot, limiter>>
    \/ /\ tasks[caller].pc = "read"
       /\ tasks[caller].order_id = order_id
       /\ order_id \in DOMAIN orders_db
       /\ LET order == confirm_flags(tasks[caller].order, caller)
              stored == confirm_flags(orders_db[order_id], caller)
          IN  IF order.client_confirmed /\ order.freelancer_confirmed
              THEN /\ orders_db' = [orders_db EXCEPT ![order_id] =
                                       [stored EXCEPT !.status = "completed"]]
                   /\ users_db' = transfer_frozen_to_user(users_db,
                                       order.client_id, order.selected_freelancer,
                                       order.budget)
                   /\ reply' = Answer("confirm_completion", "order_completed")
              ELSE /\ orders_db' = [orders_db EXCEPT ![order_id] = stored]
                   /\ users_db' = users_db
                   /\ reply' = Answer("confirm_completion", "waiting_other_party")
       /\ tasks' = [tasks EXCEPT ![caller] =
                        [pc |-> AwaitsAfter(reply'.res), order_id |-> order_id]]
       /\ UNCHANGED <<responses_db, reviews_db, escrowStores, counters,
                      services_db, bot, limiter>>

\* a confirm_completion update arrives: the handler runs to its first await
confirm_completion_start(caller, order_id) ==
    /\ tasks[caller].pc = "idle"
    /\ confirm_completion_sync(caller, order_id)
    /\ tasks' = [tasks EXCEPT ![caller] =
                     [pc |-> AwaitsAfter(reply'.res), order_id |-> order_id]]
    /\ UNCHANGED <<services_db, bot, limiter>>

\* the coroutine is resumed and runs to its next await, or to its end
confirm_completion_resume(caller) ==
    /\ tasks[caller].pc \in Suspended
    /\ tasks' = [tasks EXCEPT ![caller] =
                     IF @.pc = "send_client"
                     THEN [@ EXCEPT !.pc = "send_freelancer"]
                     ELSE IF @.pc \in {"send_freelancer", "edit_text"}
                     THEN [@ EXCEPT !.pc = "answer"]
                     ELSE Idle]
    /\ UNCHANGED <<users_db, orderStores, escrowStores, counters, reply,
                   services_db, bot, limiter>>

\* order #1 in progress in the main bot, 1 frozen for it
InitConfirm == InitReviews /\ bot = "main"

\* the two parties of order #1, an outsider and an unregistered chat
ConfirmCallers == {1, 2, 3} \cup ADMIN_IDS

NextConfirm ==
    \/ \E c \in ConfirmCallers, o \in ReviewOrders : confirm_completion_start(c, o)
    \/ \E c \in ConfirmCallers : confirm_completion_resume(c)

SpecConfirm == InitConfirm /\ [][NextConfirm]_vars

\* ------------------------------------------------- orders run to their end
\* One client's orders from creation to completion, with responses in
\* between; both parties of an order in progress keep pressing their
\* confirmation button (weak fairness of the two presses, per order).
ClientConfirms(o) ==
    /\ o \in DOMAIN orders_db
    /\ orders_db[o].status = "in_progress"
    /\ confirm_completion(orders_db[o].client_id, o)

FreelancerConfirms(o) ==
    /\ o \in DOMAIN orders_db
    /\ orders_db[o].status = "in_progress"
    /\ confirm_completion(orders_db[o].selected_freelancer, o)

NextLive ==
    \/ \E c \in ADMIN_IDS, u \in RoleChangers, n \in Amounts :
          admin_balance_action(c, u, "add", n)
    \/ \E u \in RoleChangers, b \in Amounts : order_contact_received(u, b)
    \/ \E c \in Candidates, o \in OrderIds : respond_to_order(c, o)
    \/ \E c \in RoleChangers, o \in OrderIds, f \in Candidates :
          select_freelancer(c, o, f)
    \/ \E o \in OrderIds : ClientConfirms(o)
    \/ \E o \in OrderIds : FreelancerConfirms(o)

Fairness ==
    \A o \in OrderIds :
        WF_vars(ClientConfirms(o)) /\ WF_vars(FreelancerConfirms(o))

SpecLive == Init /\ [][NextLive]_vars /\ Fairness

\* ------------------------------------------------------- the rate limiter
\* src/security.py with its constants scaled down, their order kept: the
\* per-minute limit is below the per-hour limit, the minute is shorter than
\* the hour, and a block lasts as long as the hour window.
MAX_REQUESTS_PER_MINUTE == 2    \* 20 in the source

MAX_REQUESTS_PER_HOUR == 3      \* 100 in the source

Minute == 2                     \* 60 seconds in the source

Hour == 4                       \* 3600 seconds in the source

BLOCK_DURATION == 4             \* 3600 seconds in the source

\* time.time() is read up to MaxTime, and MaxCalls calls are made in all
MaxTime == 6

MaxCalls == 5

LimitedUsers == {1, 2}

\* [t for t in times if current_time - t < window]
Recent(times, current_time, window) ==
    SelectSeq(times, LAMBDA t : current_time - t < window)

cleanup_rate_limits(rate_limits, current_time) ==
    LET cleaned == [u \in DOMAIN rate_limits |->
                      [minute |-> Recent(rate_limits[u].minute, current_time, Minute),
                       hour |-> Recent(rate_limits[u].hour, current_time, Hour)]]
    IN  [u \in {x \in DOMAIN cleaned :
                   cleaned[x].minute # <<>> \/ cleaned[x].hour # <<>>}
           |-> cleaned[u]]

block_user(blocked_users, user_id, current_time) ==
    Put(blocked_users, user_id, current_time + BLOCK_DURATION)

\* a block_user that blocks nobody
check_rate_limit_no_block(lim, user_id) ==
    LET current_time == lim.now
        cleaned == cleanup_rate_limits(lim.rate_limits, current_time)
        before == IF user_id \in DOMAIN cleaned THEN cleaned[user_id]
                  ELSE [minute |-> <<>>, hour |-> <<>>]
        user_limits ==
            [minute |-> Recent(Append(before.minute, current_time),
                               current_time, Minute),
             hour |-> Recent(Append(before.hour, current_time),
                             current_time, Hour)]
    IN  [rate_limits |-> Put(cleaned, user_id, user_limits),
         blocked_users |-> lim.blocked_users,
         allowed |-> /\ Len(user_limits.minute) <= MAX_REQUESTS_PER_MINUTE
                     /\ Len(user_limits.hour) <= MAX_REQUESTS_PER_HOUR]

\* check_rate_limit: the two dicts after the call and the value returned
check_rate_limit(lim, user_id) ==
    LET current_time == lim.now
        cleaned == cleanup_rate_limits(lim.rate_limits, current_time)
    IN  IF /\ user_id \in DOMAIN lim.blocked_users
           /\ current_time < lim.blocked_users[user_id]
        THEN [rate_limits |-> cleaned, blocked_users |-> lim.blocked_users,
              allowed |-> FALSE]
        ELSE LET unblocked == Del(lim.blocked_users, user_id)
                 before == IF user_id \in DOMAIN cleaned THEN cleaned[user_id]
                           ELSE [minute |-> <<>>, hour |-> <<>>]
                 user_limits ==
                     [minute |-> Recent(Append(before.minute, current_time),
                                        current_time, Minute),
                      hour |-> Recent(Append(before.hour, current_time),
                                      current_time, Hour)]
                 counted == Put(cleaned, user_id, user_limits)
             IN  IF Len(user_limits.minute) > MAX_REQUESTS_PER_MINUTE
                 THEN [rate_limits |-> counted,
                       blocked_users |-> block_user(unblocked, user_id, current_time),
                       allowed |-> FALSE]
                 ELSE IF Len(user_limits.hour) > MAX_REQUESTS_PER_HOUR
                 THEN [rate_limits |-> counted,
                       blocked_users |-> block_user(unblocked, user_id, current_time),
                       allowed |-> FALSE]
                 ELSE [rate_limits |-> counted, blocked_users |-> unblocked,
                       allowed |-> TRUE]

CallsOf(user_id) ==
    IF user_id \in DOMAIN limiter.calls THEN limiter.calls[user_id] ELSE <<>>

CallsMade == SumOver(DOMAIN limiter.calls,
                     [u \in DOMAIN limiter.calls |-> Len(limiter.calls[u])])

\* a request of user_id arrives and is checked
call_check_rate_limit(user_id) ==
    /\ CallsMade < MaxCalls
    /\ LET out == check_rate_limit(limiter, user_id) IN
       /\ limiter' = [now |-> limiter.now,
                      rate_limits |-> out.rate_limits,
                      blocked_users |-> out.blocked_users,
                      calls |-> Put(limiter.calls, user_id,
                                    Append(CallsOf(user_id),
                                           [at |-> limiter.now,
                                            allowed |-> out.allowed]))]
       /\ reply' = Answer("check_rate_limit",
                          IF out.allowed THEN "True" ELSE "False")
    /\ UNCHANGED <<users_db, orderStores, escrowStores, counters,
                   services_db, bot, tasks>>

\* time passes
Tick ==
    /\ limiter.now < MaxTime
    /\ limiter' = [limiter EXCEPT !.now = @ + 1]
    /\ UNCHANGED <<users_db, orderStores, escrowStores, counters, reply,
                   services_db, bot, tasks>>

NextLimiter ==
    \/ \E u \in LimitedUsers : call_check_rate_limit(u)
    \/ Tick

SpecLimiter == Init /\ [][NextLimiter]_vars

\* ================================================================== claims
\* what a handler that "changes nothing" leaves alone: every store
Stores == <<users_db, orders_db, responses_db, reviews_db, withdrawals_db,
            services_db, counters>>

\* Sum of the budgets of the in_progress base-flow orders of one client.
InProgressBudget(client_id) ==
    LET mine == {o \in DOMAIN orders_db :
                    /\ orders_db[o].type = "order"
                    /\ orders_db[o].client_id = client_id
                    /\ orders_db[o].status = "in_progress"}
    IN  SumOver(mine, [o \in mine |-> orders_db[o].budget])

\* C1: in every state reached by the handlers, with amounts > 0, every
\* user's available balance and frozen balance are >= 0.
C1_BalancesNonNegative ==
    \A u \in DOMAIN users_db :
        users_db[u].balance >= 0 /\ users_db[u].frozen_balance >= 0

\* money went from a client's balance through the frozen balance to another
\* user, leaving the client with nothing
C1_Witness ==
    /\ reply = Answer("transfer_frozen_to_user", "True")
    /\ \E u, v \in DOMAIN users_db :
          /\ u # v
          /\ users_db[u].balance = 0
          /\ users_db[u].frozen_balance = 0
          /\ users_db[v].balance = MaxMoney

\* C2: the budget of a base-flow order is transferred at most once: once
\* both parties have confirmed and the order is completed, a further
\* confirm_completion call moves no money.
C2_NoTransferAfterCompleted ==
    [][\A c \in Callers, o \in OrderIds :
          (/\ IsBase(o)
           /\ orders_db[o].status = "completed"
           /\ orders_db[o].client_confirmed
           /\ orders_db[o].freelancer_confirmed
           /\ confirm_completion(c, o))
          => users_db' = users_db]_vars

\* C3: with only base-flow orders, every client's frozen balance equals the
\* sum of the budgets of that client's in_progress orders, in every state
\* (also right after an admin deleted an order).
C3_FrozenEqualsInProgress ==
    (\A o \in DOMAIN orders_db : orders_db[o].type = "order")
    => \A u \in DOMAIN users_db :
          users_db[u].frozen_balance = InProgressBudget(u)

\* C4: select_freelancer on an order whose status is not active is declined
\* and changes nothing.
C4_SelectOnlyWhenActive ==
    [][\A c \in Callers, o \in OrderIds, f \in UserIds :
          (/\ IsBase(o)
           /\ orders_db[o].status # "active"
           /\ select_freelancer(c, o, f))
          => /\ UNCHANGED Stores
             /\ reply'.res # "order_selected"]_vars

\* C5: confirm_completion on an order that is not in_progress is declined:
\* no confirmation flag is set, the status stays, no money moves.
C5_ConfirmOnlyInProgress ==
    [][\A c \in Callers, o \in OrderIds :
          (/\ IsBase(o)
           /\ orders_db[o].status # "in_progress"
           /\ confirm_completion(c, o))
          => UNCHANGED <<users_db, orders_db>>]_vars

\* C6: a base-flow order becomes completed, and confirm_completion moves its
\* budget, only into a state where the order has a selected freelancer and
\* both client_confirmed and freelancer_confirmed are true.
C6_CompletedOnlyWithBothFlags ==
    [][/\ \A o \in OrderIds :
             (/\ IsBase(o)
              /\ o \in DOMAIN orders_db'
              /\ orders_db[o].status # "completed"
              /\ orders_db'[o].status = "completed")
             => /\ orders_db'[o].client_confirmed
                /\ orders_db'[o].freelancer_confirmed
                /\ orders_db'[o].selected_freelancer # None
       /\ \A c \in Callers, o \in OrderIds :
             (IsBase(o) /\ confirm_completion(c, o) /\ users_db' # users_db)
             => /\ orders_db'[o].client_confirmed
                /\ orders_db'[o].freelancer_confirmed]_vars

\* C7: the status of an order only ever changes from active to in_progress
\* or from in_progress to completed; completed is terminal.
C7_StatusMovesForward ==
    [][\A o \in OrderIds :
          (/\ IsBase(o)
           /\ o \in DOMAIN orders_db'
           /\ orders_db'[o].status # orders_db[o].status)
          => <<orders_db[o].status, orders_db'[o].status>> \in
                {<<"active", "in_progress">>, <<"in_progress", "completed">>}]_vars

\* C8: select_freelancer by the order's client on an active order whose
\* budget exceeds the client's available balance is declined for
\* insufficient funds; no store changes (status stays active, nothing is
\* frozen).
C8_SelectInsufficientFunds ==
    [][reply'.op = "select_freelancer" => \A c \in Callers, o \in OrderIds, f \in UserIds :
          (/\ IsBase(o)
           /\ orders_db[o].client_id = c
           /\ orders_db[o].status = "active"
           /\ orders_db[o].budget > get_user_balance(users_db, c)
           /\ select_freelancer(c, o, f))
          => /\ reply'.res = "insufficient_funds"
             /\ UNCHANGED Stores]_vars

\* a select_freelancer call was just declined for insufficient funds while
\* an active order asks for more than its client has
C8_Witness ==
    /\ reply = Answer("select_freelancer", "insufficient_funds")
    /\ \E o \in DOMAIN orders_db :
          /\ orders_db[o].status = "active"
          /\ orders_db[o].budget >
                get_user_balance(users_db, orders_db[o].client_id)

\* C9: select_freelancer by the client of an active order, with available
\* balance >= budget and a registered freelancer, succeeds: the client's
\* balance drops by exactly the budget, the frozen balance grows by exactly
\* the budget, the order is in_progress with the freelancer recorded and
\* both confirmation flags false; no other user and no other order changes.
C9_SelectFreezesBudget ==
    [][reply'.op = "select_freelancer" => \A c \in Callers, o \in OrderIds, f \in UserIds :
          (/\ IsBase(o)
           /\ orders_db[o].client_id = c
           /\ orders_db[o].status = "active"
           /\ c \in DOMAIN users_db
           /\ f \in DOMAIN users_db
           /\ users_db[c].balance >= orders_db[o].budget
           /\ select_freelancer(c, o, f))
          => /\ reply'.res = "order_selected"
             /\ DOMAIN users_db' = DOMAIN users_db
             /\ users_db'[c].balance = users_db[c].balance - orders_db[o].budget
             /\ users_db'[c].frozen_balance =
                   users_db[c].frozen_balance + orders_db[o].budget
             /\ \A u \in DOMAIN users_db \ {c} : users_db'[u] = users_db[u]
             /\ DOMAIN orders_db' = DOMAIN orders_db
             /\ orders_db'[o] = [orders_db[o] EXCEPT
                                   !.status = "in_progress",
                                   !.selected_freelancer = f,
                                   !.client_confirmed = FALSE,
                                   !.freelancer_confirmed = FALSE]
             /\ \A p \in DOMAIN orders_db \ {o} : orders_db'[p] = orders_db[p]]_vars

\* a select_freelancer call just succeeded on a client whose whole balance
\* was the budget (balance 0, frozen = budget), a second order exists, and
\* the other users hold money
C9_Witness ==
    /\ reply = Answer("select_freelancer", "order_selected")
    /\ \E o \in DOMAIN orders_db :
          /\ orders_db[o].status = "in_progress"
          /\ orders_db[o].selected_freelancer \in Freelancers
          /\ ~orders_db[o].client_confirmed
          /\ ~orders_db[o].freelancer_confirmed
          /\ users_db[orders_db[o].client_id].balance = 0
          /\ users_db[orders_db[o].client_id].frozen_balance = orders_db[o].budget
          /\ DOMAIN orders_db # {o}

\* C10: select_freelancer called by anyone but the order's client changes
\* no store (neither the order nor a balance), and a registered caller is
\* answered error_not_your_order; the same holds for accept_freelancer of
\* the telebot variant.
C10_SelectByNonOwner ==
    [][/\ reply'.op = "select_freelancer" =>
          \A c \in Callers, o \in OrderIds, f \in UserIds :
             (/\ bot = "main"
              /\ o \in DOMAIN orders_db
              /\ orders_db[o].client_id # c
              /\ select_freelancer(c, o, f))
             => /\ UNCHANGED Stores
                /\ c \in DOMAIN users_db => reply'.res = "error_not_your_order"
       /\ reply'.op = "accept_freelancer" =>
          \A c \in Callers, o \in OrderIds, f \in UserIds :
             (/\ bot = "handlers"
              /\ o \in DOMAIN orders_db
              /\ orders_db[o].client_id # c
              /\ accept_freelancer(c, f, o))
             => /\ UNCHANGED Stores
                /\ c \in DOMAIN users_db => reply'.res = "error_not_your_order"]_vars

\* in the main bot a select_freelancer call was just answered
\* error_not_your_order while every order id is on file with money held
\* for one of them, so the caller was not that order's client
C10_Witness ==
    /\ bot = "main"
    /\ reply = Answer("select_freelancer", "error_not_your_order")
    /\ DOMAIN orders_db = OrderIds
    /\ \E o \in OrderIds : orders_db[o].status = "in_progress"
    /\ \E u \in DOMAIN users_db : users_db[u].balance > 0

\* C11: confirm_completion called by a user who is neither the order's
\* client nor its selected freelancer is declined (error_not_your_order for
\* a registered caller) and changes no flag, no status and no balance.
C11_ConfirmByNonParticipant ==
    [][reply'.op = "confirm_completion" =>
         \A c \in Callers, o \in OrderIds :
            ( /\ o \in DOMAIN orders_db
              /\ c \notin {orders_db[o].client_id,
                           orders_db[o].selected_freelancer}
              /\ confirm_completion(c, o) )
            => /\ UNCHANGED Stores
               /\ c \in DOMAIN users_db => reply'.res = "error_not_your_order"
      ]_vars

\* a stranger was turned away from an order in progress on which the client
\* has already confirmed and whose budget is frozen
C11_Witness ==
    /\ reply = Answer("confirm_completion", "error_not_your_order")
    /\ \E o \in DOMAIN orders_db :
          /\ orders_db[o].status = "in_progress"
          /\ orders_db[o].client_confirmed
          /\ ~orders_db[o].freelancer_confirmed
          /\ users_db[orders_db[o].client_id].frozen_balance
                >= orders_db[o].budget

\* C12: while only one party has confirmed an in_progress order, that same
\* party calling confirm_completion again changes nothing: the order stays
\* in_progress, both flags and every balance are as they were.
C12_ConfirmTwiceSameParty ==
    [][reply'.op = "confirm_completion" =>
         \A c \in Callers, o \in OrderIds :
            ( /\ IsBase(o)
              /\ orders_db[o].status = "in_progress"
              /\ c \in DOMAIN users_db
              /\ \/ /\ c = orders_db[o].client_id
                    /\ orders_db[o].client_confirmed
                    /\ ~orders_db[o].freelancer_confirmed
                 \/ /\ c = orders_db[o].selected_freelancer
                    /\ c # orders_db[o].client_id
                    /\ orders_db[o].freelancer_confirmed
                    /\ ~orders_db[o].client_confirmed
              /\ confirm_completion(c, o) )
            => /\ UNCHANGED Stores
               /\ reply'.res = "waiting_other_party"
      ]_vars

\* a confirmation was answered "waiting for the other party" on an order in
\* progress that holds the freelancer's flag only, its budget still frozen
C12_Witness ==
    /\ reply = Answer("confirm_completion", "waiting_other_party")
    /\ \E o \in DOMAIN orders_db :
          /\ orders_db[o].status = "in_progress"
          /\ orders_db[o].freelancer_confirmed
          /\ ~orders_db[o].client_confirmed
          /\ users_db[orders_db[o].client_id].frozen_balance
                = orders_db[o].budget
          /\ users_db[orders_db[o].selected_freelancer].balance = 0

\* C13: every withdrawal request that is created comes with a debit of
\* exactly its amount from the user's available balance, whatever happened
\* to that balance between withdrawal_amount_received and
\* confirm_withdrawal (no debit possible: no pending request).
C13_WithdrawalDebited ==
    [][reply'.op = "confirm_withdrawal" =>
         \A u \in UserIds :
            (confirm_withdrawal(u) /\ withdrawals_db' # withdrawals_db)
            => LET created == withdrawals_db'[counters.withdrawal_id] IN
               /\ created.status = "pending"
               /\ users_db'[u].balance = users_db[u].balance - created.amount
      ]_vars

\* C14: confirming a withdrawal of a, 0 < a <= balance, lowers the user's
\* available balance by exactly a and files a pending request whose
\* balance_before is the balance before the debit; rejecting that request
\* adds a back, so a balance still at balance_before - a returns to
\* balance_before, and the request is rejected.
C14_WithdrawThenReject ==
    [][/\ reply'.op = "confirm_withdrawal" =>
            \A u \in UserIds :
               ( /\ u \in DOMAIN users_db
                 /\ fsm[u].temp_withdrawal > 0
                 /\ fsm[u].temp_withdrawal <= users_db[u].balance
                 /\ confirm_withdrawal(u) )
               => /\ users_db' = [users_db EXCEPT
                         ![u].balance = @ - fsm[u].temp_withdrawal]
                  /\ withdrawals_db' = Put(withdrawals_db, counters.withdrawal_id,
                         [user_id |-> u, type |-> "none",
                          amount |-> fsm[u].temp_withdrawal,
                          status |-> "pending",
                          balance_before |-> users_db[u].balance])
       /\ reply'.op = "admin_reject_withdrawal" =>
            \A c \in Callers, r \in RequestIds :
               ( /\ r \in DOMAIN withdrawals_db
                 /\ withdrawals_db[r].type = "none"
                 /\ withdrawals_db[r].status = "pending"
                 /\ admin_reject_withdrawal(c, r) )
               => LET w == withdrawals_db[r] IN
                  /\ withdrawals_db' = [withdrawals_db EXCEPT
                                           ![r].status = "rejected"]
                  /\ users_db' = [users_db EXCEPT ![w.user_id].balance =
                                                     @ + w.amount]
                  /\ users_db[w.user_id].balance = w.balance_before - w.amount
                        => users_db'[w.user_id].balance = w.balance_before
      ]_vars

\* a withdrawal of 1 from a balance of MaxMoney was rejected and the balance
\* is back at MaxMoney
C14_Witness ==
    /\ reply = Answer("admin_reject_withdrawal", "rejected")
    /\ \E r \in DOMAIN withdrawals_db :
          /\ withdrawals_db[r].type = "none"
          /\ withdrawals_db[r].status = "rejected"
          /\ withdrawals_db[r].amount = 1
          /\ withdrawals_db[r].balance_before = MaxMoney
          /\ users_db[withdrawals_db[r].user_id].balance = MaxMoney

\* C15: approving or rejecting a withdrawal request whose status is not
\* pending is declined (already processed) and changes neither the request
\* nor any balance (no second refund); and in every step a resolved
\* withdrawal request keeps its record.
C15_ResolvedWithdrawalIsFinal ==
    [][/\ \A c \in Callers, r \in RequestIds :
            ( /\ r \in DOMAIN withdrawals_db
              /\ withdrawals_db[r].type = "none"
              /\ withdrawals_db[r].status # "pending"
              /\ \/ admin_confirm_withdrawal(c, r)
                 \/ admin_reject_withdrawal(c, r) )
            => /\ UNCHANGED Stores
               /\ reply'.res = "already_processed"
       /\ \A r \in DOMAIN withdrawals_db :
            (withdrawals_db[r].type = "none" /\ withdrawals_db[r].status # "pending")
            => /\ r \in DOMAIN withdrawals_db'
               /\ withdrawals_db'[r] = withdrawals_db[r]
      ]_vars

\* a second rejection of a withdrawal was declined: the request is rejected
\* and its amount was paid back once
C15_Witness ==
    /\ reply = Answer("admin_reject_withdrawal", "already_processed")
    /\ \E r \in DOMAIN withdrawals_db :
          /\ withdrawals_db[r].type = "none"
          /\ withdrawals_db[r].status = "rejected"
          /\ withdrawals_db[r].balance_before >= withdrawals_db[r].amount
          /\ users_db[withdrawals_db[r].user_id].balance
                = withdrawals_db[r].balance_before

\* C16: a topup request credits the user's balance once: an approval of a
\* topup request that is no longer pending is declined and moves no money.
C16_TopupCreditedOnce ==
    [][reply'.op = "admin_confirm_topup" =>
         \A c \in Callers, r \in RequestIds :
            ( /\ r \in DOMAIN withdrawals_db
              /\ withdrawals_db[r].type = "topup"
              /\ withdrawals_db[r].status # "pending"
              /\ admin_confirm_topup(c, r) )
            => /\ users_db' = users_db
               /\ reply'.res # "confirmed"
      ]_vars

\* C17: a step that takes a pending topup request to rejected leaves every
\* balance unchanged.
C17_TopupRejectNoLedger ==
    [][\A r \in DOMAIN withdrawals_db :
          ( /\ withdrawals_db[r].type = "topup"
            /\ withdrawals_db[r].status = "pending"
            /\ r \in DOMAIN withdrawals_db'
            /\ withdrawals_db'[r].status = "rejected" )
          => users_db' = users_db
      ]_vars

\* C18: an approve or reject callback sent by a user who is not an admin
\* changes neither a request nor a balance.
C18_OnlyAdminResolves ==
    [][\A c \in Callers \ ADMIN_IDS, r \in RequestIds :
          ( \/ admin_confirm_topup(c, r)
            \/ admin_confirm_withdrawal(c, r)
            \/ admin_reject_withdrawal(c, r) )
          => UNCHANGED <<withdrawals_db, users_db>>
      ]_vars

\* C19: a select_freelancer call that is not answered with the selection
\* (unknown order, not the owner, insufficient funds, a freelancer id that
\* is not a registered user) leaves every balance and every order unchanged.
C19_FailedSelectChangesNothing ==
    [][(reply'.op = "select_freelancer" /\ reply'.res # "order_selected")
          => UNCHANGED <<users_db, orders_db>>
      ]_vars

\* u's available + frozen balance in a ledger
Combined(db, u) == db[u].balance + db[u].frozen_balance

\* freeze(u, a) then transferFrozen(u, v, a), and freeze(u, a) then
\* unfreeze(u, a), applied to a ledger
FreezeThenTransfer(db, u, v, a) ==
    transfer_frozen_to_user(freeze_balance(db, u, a), u, v, a)

FreezeThenUnfreeze(db, u, a) == unfreeze_balance(freeze_balance(db, u, a), u, a)

\* C20 as stated: for ANY registered u, v and 0 < a <= available(u), freeze
\* then transferFrozen lowers u's combined balance by a and raises v's
\* available balance by a, nothing else changing; freeze then unfreeze
\* restores the ledger.
C20_AnyUsers ==
    \A u \in DOMAIN users_db, v \in DOMAIN users_db, a \in Amounts :
       a <= users_db[u].balance =>
          LET moved == FreezeThenTransfer(users_db, u, v, a) IN
          /\ Combined(moved, u) = Combined(users_db, u) - a
          /\ moved[v].balance = users_db[v].balance + a
          /\ \A w \in DOMAIN users_db \ {u, v} : moved[w] = users_db[w]
          /\ FreezeThenUnfreeze(users_db, u, a) = users_db

\* C20, amended: the same for DISTINCT registered users u # v (u's frozen
\* balance and v's frozen balance are as before, and the sum of all balances
\* is unchanged); for v = u the pair gives the amount back to u, i.e. it
\* acts as freeze then unfreeze; freeze then unfreeze restores the ledger.
C20_FreezeTransferUnfreeze ==
    \A u \in DOMAIN users_db, v \in DOMAIN users_db, a \in Amounts :
       a <= users_db[u].balance =>
          LET moved == FreezeThenTransfer(users_db, u, v, a) IN
          /\ u # v =>
                /\ moved = [users_db EXCEPT ![u].balance = @ - a,
                                            ![v].balance = @ + a]
                /\ Combined(moved, u) = Combined(users_db, u) - a
                /\ TotalMoney(moved) = TotalMoney(users_db)
          /\ u = v => moved = users_db
          /\ FreezeThenUnfreeze(users_db, u, a) = users_db

\* a ledger on which the pair has work to do: a user holding both available
\* and frozen money after a freeze, next to another registered user
C20_Witness ==
    /\ reply = Answer("freeze_balance", "True")
    /\ \E u \in DOMAIN users_db, v \in DOMAIN users_db :
          /\ u # v
          /\ users_db[u].balance >= 1
          /\ users_db[u].frozen_balance >= 1
          /\ FreezeThenTransfer(users_db, u, v, 1) # users_db

\* C21: add_to_balance, subtract_from_balance, freeze_balance,
\* unfreeze_balance and transfer_frozen_to_user called with an amount <= 0
\* are declined and change no balance, also when the call comes from the
\* admin's balance action.
C21_NonPositiveAmountDeclined ==
    [][\A u \in LedgerUsers, v \in LedgerUsers, n \in {-1} :
          ( \/ call_add_to_balance(u, n)
            \/ call_subtract_from_balance(u, n)
            \/ call_freeze_balance(u, n)
            \/ call_unfreeze_balance(u, n)
            \/ call_transfer_frozen_to_user(u, v, n)
            \/ \E c \in ADMIN_IDS, a \in {"add", "subtract"} :
                  admin_balance_action(c, u, a, n) )
          => users_db' = users_db
      ]_vars

\* C22: the order dialog's last step creates the order for any positive
\* budget whatever the client's balance: the order is stored active with no
\* selected freelancer and no balance changes.
C22_CreateWithoutFunds ==
    [][reply'.op = "order_contact_received" =>
         \A u \in UserIds, b \in Amounts :
            order_contact_received(u, b)
            => /\ reply'.res = "order_created"
               /\ orders_db' = Put(orders_db, counters.order_id, NewOrder(u, b))
               /\ users_db' = users_db
      ]_vars

\* C23: respond succeeds at most once per (order, freelancer): no response
\* list ever holds a freelancer twice, and a call by a freelancer already in
\* the order's list inserts nothing and is reported as a duplicate.
C23_OneResponsePerFreelancer ==
    [][/\ \A o \in DOMAIN responses_db' :
            \A i, j \in DOMAIN responses_db'[o] :
               responses_db'[o][i] = responses_db'[o][j] => i = j
       /\ reply'.op = "respond_to_order" =>
            \A c \in Respondents, o \in OrderIds :
               /\ ( /\ bot = "main"
                    /\ c \in get_responses(responses_db, o)
                    /\ respond_to_order(c, o) )
                  => /\ UNCHANGED Stores
                     /\ ( /\ users_db[c].role = "freelancer"
                          /\ ~(o \in DOMAIN orders_db /\ orders_db[o].client_id = c) )
                        => reply'.res = "response_exists"
               /\ ( /\ bot = "handlers"
                    /\ c \in get_responses(responses_db, o)
                    /\ respond_to_order_telebot(c, o) )
                  => /\ UNCHANGED Stores
                     /\ o \in DOMAIN orders_db => reply'.res = "response_exists"
      ]_vars

\* a repeated response was reported as a duplicate on an order whose list
\* holds two freelancers
C23_Witness ==
    /\ reply = Answer("respond_to_order", "response_exists")
    /\ \E o \in DOMAIN orders_db :
          /\ o \in DOMAIN responses_db
          /\ Len(responses_db[o]) = 2

\* C24: in both bots no order ever has a response whose freelancer_id is
\* the order's client_id.
C24_NoSelfResponse ==
    \A o \in DOMAIN orders_db :
        orders_db[o].client_id \notin get_responses(responses_db, o)

\* C25: in both bots the freelancer recorded on an order by the selection
\* is one of the order's respondents.
C25_SelectedIsRespondent ==
    \A o \in DOMAIN orders_db :
        /\ orders_db[o].selected_freelancer # None
              => orders_db[o].selected_freelancer
                    \in get_responses(responses_db, o)
        /\ orders_db[o].freelancer_id # None
              => orders_db[o].freelancer_id \in get_responses(responses_db, o)

\* C26: at every reachable state a base-flow order has a selected freelancer
\* recorded (selected_freelancer in main.py, freelancer_id in handlers.py)
\* if and only if its status is in_progress, completed or cancelled.
C26_SelectedIffStatus ==
    \A o \in DOMAIN orders_db :
        orders_db[o].type = "order" =>
            ((orders_db[o].selected_freelancer # None
                 \/ orders_db[o].freelancer_id # None)
             <=> orders_db[o].status \in {"in_progress", "completed", "cancelled"})

\* C27: admin_reject_service_order takes effect only on a service order
\* that is in_progress and not yet confirmed_by_admin, and then unfreezes
\* the order's amount for the client and sets the status cancelled; on an
\* order in any other state it is declined: no balance and no status change.
C27_RejectOnlyUnconfirmed ==
    [][reply'.op = "admin_reject_service_order" =>
          \/ \E o \in DOMAIN orders_db :
                /\ orders_db[o].type = "service_order"
                /\ orders_db[o].status = "in_progress"
                /\ ~orders_db[o].confirmed_by_admin
                /\ orders_db' = [orders_db EXCEPT ![o].status = "cancelled"]
                /\ users_db' = unfreeze_balance(users_db, orders_db[o].client_id,
                                                orders_db[o].amount)
          \/ /\ reply'.res # "rejected"
             /\ UNCHANGED <<users_db, orders_db>>]_vars

\* the chat whose review dialog ends in this step: the user who submits
Submits(u) ==
    /\ fsm[u].state \in {"waiting_review_text", "review_comment"}
    /\ fsm'[u] = Cleared

\* the triple that user's submission hands to add_review
SubmittedKey(u) ==
    review_key(fsm[u].review.order_id,
               IF bot = "main" THEN fsm[u].review.reviewer_id ELSE u,
               fsm[u].review.reviewed_id)

\* C28: in both bots a review record is created only for an order whose
\* status is completed, with a reviewer who is the order's client or its
\* selected freelancer and who is the user submitting the review.
C28_ReviewOnlyByParticipant ==
    [][\A k \in (DOMAIN reviews_db') \ (DOMAIN reviews_db) :
          /\ k[1] \in DOMAIN orders_db
          /\ orders_db[k[1]].status = "completed"
          /\ k[2] \in {orders_db[k[1]].client_id,
                       orders_db[k[1]].selected_freelancer,
                       orders_db[k[1]].freelancer_id} \ {None}
          /\ k[2] \in DOMAIN fsm
          /\ Submits(k[2])]_vars

\* C29: a submission never changes or removes a stored review, and a
\* submission for a triple that already has a review is answered with the
\* failure and leaves reviews_db as it was: one review per triple.
C29_SecondAddReviewFails ==
    [][reply'.op \in {"review_text_received", "review_comment_received"} =>
          /\ \A k \in DOMAIN reviews_db :
                k \in DOMAIN reviews_db' /\ reviews_db'[k] = reviews_db[k]
          /\ \A u \in DOMAIN fsm :
                Submits(u) /\ SubmittedKey(u) \in DOMAIN reviews_db
                   => reply'.res = "review_error" /\ reviews_db' = reviews_db]_vars

\* a second submission for a reviewed triple has just been refused
C29_Witness ==
    /\ reply.op \in {"review_text_received", "review_comment_received"}
    /\ reply.res = "review_error"
    /\ reviews_db # Empty

\* C30: can_leave_review is true exactly when the order exists with status
\* completed, the reviewer is its client or its selected freelancer, and
\* the triple has no review yet.
C30_CanLeaveReviewIff ==
    bot = "main" =>
       \A o \in OrderIds, r \in Callers, d \in Callers :
          can_leave_review(o, r, d)
             <=> /\ o \in DOMAIN orders_db
                 /\ orders_db[o].status = "completed"
                 /\ (r = orders_db[o].client_id
                        \/ r = orders_db[o].selected_freelancer)
                 /\ <<o, r, d>> \notin DOMAIN reviews_db

\* the client's review is stored, the freelancer's is not, and a review
\* dialog for the freelancer's has just been opened
C30_Witness ==
    /\ bot = "main"
    /\ reply = Answer("start_review", "select_rating")
    /\ 1 \in DOMAIN orders_db
    /\ orders_db[1].status = "completed"
    /\ ~can_leave_review(1, 1, 2)
    /\ can_leave_review(1, 2, 1)

\* C31: completing the registration dialog for a user id that already has
\* an account leaves that account's available and frozen balance as they
\* were.
C31_RegistrationKeepsBalances ==
    [][reply'.op = "complete_registration" =>
          \A u \in DOMAIN users_db :
              /\ get_user_balance(users_db', u) = get_user_balance(users_db, u)
              /\ get_user_frozen_balance(users_db', u)
                    = get_user_frozen_balance(users_db, u)]_vars

\* C32: an order of either kind gets the counter's value as its id and the
\* counter moves past it; the counter never goes back, not when an order is
\* deleted either, and every stored id is below it: ids are unique,
\* increase in creation order and are never assigned twice.
C32_OrderIdsMonotonic ==
    [][/\ counters'.order_id >= counters.order_id
       /\ \A o \in (DOMAIN orders_db') \ (DOMAIN orders_db) :
             /\ o = counters.order_id
             /\ counters'.order_id = o + 1
             /\ \A x \in DOMAIN orders_db : x < o
       /\ \A o \in DOMAIN orders_db' : o < counters'.order_id]_vars

\* order #1 was deleted and the next order, a service order, has id 2
C32_Witness ==
    /\ DOMAIN orders_db = {2}
    /\ orders_db[2].type = "service_order"
    /\ counters.order_id = 3

\* by how much the step changes all the money of all users
TotalChange == TotalMoney(users_db') - TotalMoney(users_db)

\* C33: an order-lifecycle handler never changes the sum of available and
\* frozen balances over all users.  The sum changes by -amount when a
\* withdrawal request is created, by +amount when a withdrawal is rejected,
\* by +amount when a topup is approved, and by an admin's balance
\* adjustment; requesting a topup and approving a withdrawal change no
\* balance, and no other step changes the sum.
C33_TotalMoneyAccounting ==
    [][CASE reply'.op = "admin_balance_action" -> TRUE
         [] reply'.op = "confirm_withdrawal" ->
              IF DOMAIN withdrawals_db' # DOMAIN withdrawals_db
              THEN \A r \in (DOMAIN withdrawals_db') \ (DOMAIN withdrawals_db) :
                       TotalChange = 0 - withdrawals_db'[r].amount
              ELSE TotalChange = 0
         [] reply'.op = "admin_reject_withdrawal" ->
              IF reply'.res = "rejected"
              THEN \E r \in DOMAIN withdrawals_db :
                       /\ withdrawals_db[r].type # "topup"
                       /\ withdrawals_db[r].status = "pending"
                       /\ withdrawals_db'[r].status = "rejected"
                       /\ TotalChange = withdrawals_db[r].amount
              ELSE TotalChange = 0
         [] reply'.op = "admin_confirm_topup" ->
              IF reply'.res = "confirmed"
              THEN \E r \in DOMAIN withdrawals_db :
                       /\ withdrawals_db[r].type = "topup"
                       /\ withdrawals_db'[r].status = "completed"
                       /\ TotalChange = withdrawals_db[r].amount
              ELSE TotalChange = 0
         [] reply'.op \in {"topup_amount_received", "admin_confirm_withdrawal"} ->
              users_db' = users_db
         [] OTHER -> TotalChange = 0]_vars

\* C34: when confirm_completion takes a base-flow order to completed, that
\* step lowers the client's frozen balance by the budget and raises the
\* selected freelancer's available balance by the budget.
C34_CompletedMeansPaid ==
    [][reply'.op = "confirm_completion" =>
          \A o \in (DOMAIN orders_db) \cap (DOMAIN orders_db') :
              /\ orders_db[o].type = "order"
              /\ orders_db[o].status # "completed"
              /\ orders_db'[o].status = "completed"
              => LET c == orders_db[o].client_id
                     f == orders_db[o].selected_freelancer
                     b == orders_db[o].budget
                 IN  /\ c \in DOMAIN users_db
                     /\ f \in DOMAIN users_db
                     /\ get_user_frozen_balance(users_db', c)
                           = get_user_frozen_balance(users_db, c) - b
                     /\ get_user_balance(users_db', f)
                           = get_user_balance(users_db, f) + b]_vars

\* C35: the amount frozen for a service order is released at most once: a
\* step of admin_reject_service_order or client_confirm_service that moves
\* money takes a service order out of waiting_payment / in_progress, so the
\* amount of an order already cancelled or completed is not released again.
C35_ReleasedAtMostOnce ==
    [][/\ reply'.op \in {"admin_reject_service_order", "client_confirm_service"}
       /\ users_db' # users_db
       => \E o \in DOMAIN orders_db :
              /\ orders_db[o].type = "service_order"
              /\ orders_db[o].status \in {"waiting_payment", "in_progress"}
              /\ orders_db'[o].status \in {"cancelled", "completed"}]_vars

\* a service order the admin has confirmed and the freelancer has reported
\* done
ReadyForClient(o) ==
    /\ orders_db[o].type = "service_order"
    /\ orders_db[o].status = "in_progress"
    /\ orders_db[o].confirmed_by_admin
    /\ orders_db[o].freelancer_completed

\* C36: client_confirm_service completes a service order and transfers its
\* amount only when the admin has confirmed the order (in_progress) and the
\* freelancer has reported the work done; on an order still waiting_payment,
\* cancelled or not reported done it completes nothing and moves no money.
C36_CompletedOnlyAfterBoth ==
    [][reply'.op = "client_confirm_service" =>
          /\ \A o \in DOMAIN orders_db :
                /\ orders_db[o].type = "service_order"
                /\ orders_db[o].status # "completed"
                /\ orders_db'[o].status = "completed"
                => ReadyForClient(o)
          /\ users_db' # users_db
                => \E o \in DOMAIN orders_db :
                       ReadyForClient(o) /\ orders_db'[o].status = "completed"]_vars

\* C37: with the client's and the freelancer's confirm_completion
\* coroutines interleaved in every way at their awaits, an order is
\* completed exactly when both parties have confirmed: after one
\* confirmation it is in_progress with the budget still frozen, after both
\* it is completed with the budget transferred once, whoever was first.
C37_ConfirmationsCommute ==
    \A o \in DOMAIN orders_db :
        LET order == orders_db[o] IN
        /\ order.status \in {"in_progress", "completed"}
        /\ order.status = "completed"
              <=> (order.client_confirmed /\ order.freelancer_confirmed)
        /\ order.status = "in_progress" =>
              /\ get_user_frozen_balance(users_db, order.client_id) = order.budget
              /\ get_user_balance(users_db, order.selected_freelancer) = 0
        /\ order.status = "completed" =>
              /\ get_user_frozen_balance(users_db, order.client_id) = 0
              /\ get_user_balance(users_db, order.selected_freelancer)
                    = order.budget

\* the client confirmed first and is still suspended at its first await
\* when the freelancer's confirmation completes the order
C37_Witness ==
    /\ tasks[1].pc = "edit_text"
    /\ tasks[2].pc = "send_client"
    /\ orders_db[1].status = "completed"
    /\ get_user_balance(users_db, 2) = 1

\* C38: with both parties' confirmations weakly fair, every order that is
\* in_progress is eventually completed.
C38_InProgressLeadsToCompleted ==
    \A o \in OrderIds :
        (o \in DOMAIN orders_db /\ orders_db[o].status = "in_progress")
           ~> (o \in DOMAIN orders_db /\ orders_db[o].status = "completed")

\* What the limiter owes a user, told from the user's own calls (log, in
\* the order made): "blocked" a call made less than BLOCK_DURATION after a
\* call that exceeded a limit, "exceeded" a call with which the requests
\* of the last minute or hour, itself included, go over the limit, "ok" any
\* other.  Calls refused as blocked are no requests.
RECURSIVE Verdicts(_)
Verdicts(log) ==
    IF log = <<>> THEN <<>>
    ELSE LET n == Len(log)
             earlier == Verdicts(SubSeq(log, 1, n - 1))
             at == log[n].at
             blocked == \E e \in 1..(n - 1) :
                           earlier[e] = "exceeded" /\ at < log[e].at + BLOCK_DURATION
             requests(window) ==
                 1 + Cardinality({j \in 1..(n - 1) :
                                     earlier[j] # "blocked" /\ at - log[j].at < window})
         IN  Append(earlier,
                    IF blocked THEN "blocked"
                    ELSE IF requests(Minute) > MAX_REQUESTS_PER_MINUTE
                            \/ requests(Hour) > MAX_REQUESTS_PER_HOUR
                    THEN "exceeded"
                    ELSE "ok")

\* C39: check_rate_limit returns False for the call with which the user
\* goes over the per-minute or the per-hour limit and for every later call
\* of that user made less than BLOCK_DURATION after it, and True for every
\* other call; the answer depends on the user's own calls only.
C39_RateLimitVerdicts ==
    \A u \in DOMAIN limiter.calls :
        LET log == limiter.calls[u]
            owed == Verdicts(log)
        IN  \A k \in 1..Len(log) : log[k].allowed <=> owed[k] = "ok"

\* user 1 went over the hourly limit, was refused while blocked, and is
\* admitted again once the block is over
C39_Witness ==
    /\ 1 \in DOMAIN limiter.calls
    /\ Len(limiter.calls[1]) = 5
    /\ Verdicts(limiter.calls[1]) = <<"ok", "ok", "ok", "exceeded", "ok">>
    /\ limiter.calls[1][4].at - limiter.calls[1][1].at >= Minute

====
